---- MODULE Spec2Model ----
(***************************************************************************)
(* Machine registry of the SSH bastion: the machines table                 *)
(* (internal/db), the HTTP handlers that mutate it (internal/server) and   *)
(* the files derived from it (internal/config).                            *)
(*                                                                         *)
(* Strings are sequences of atoms.  A name is a sequence of one-byte       *)
(* characters.  A public key is a sequence of tokens, each a one-byte      *)
(* whitespace character or a word of known byte length, so that            *)
(* strings.TrimSpace, strings.Contains, len and strings.Fields are         *)
(* computed on the value and not assumed.                                  *)
(***************************************************************************)
EXTENDS Integers, Sequences, FiniteSets, TLC

(***************************************************************************)
(* Program constants                                                       *)
(***************************************************************************)
PortMin == 10022
PortMax == 10099
MaxKeyLen == 2048
MaxNameTail == 63

(***************************************************************************)
(* Bounds of the model                                                     *)
(***************************************************************************)
\* number of concurrently served requests
NumProcs == 2
\* number of rows the model inserts in one behaviour (caps AUTOINCREMENT)
MaxInserts == 2
\* ports left free by the machines of a well-filled initial store
FreeAtStart == 1

Procs == 1..NumProcs
NumFillers == (PortMax - PortMin + 1) - FreeAtStart

(***************************************************************************)
(* Character classes of validName: ^[a-zA-Z0-9][a-zA-Z0-9._-]{0,63}$       *)
(***************************************************************************)
AlNum == {"a", "b", "c", "f", "o", "u", "x", "0", "1", "2", "3", "4", "5", "6", "7", "8", "9"}
TailChars == AlNum \cup {".", "_", "-"}

\* the pattern without its first class: ^[a-zA-Z0-9._-]{1,64}$
validNameAnyFirst(s) ==
    /\ Len(s) >= 1
    /\ Len(s) <= 1 + MaxNameTail
    /\ \A i \in 1..Len(s) : s[i] \in TailChars

validName(s) ==
    /\ Len(s) >= 1
    /\ Len(s) <= 1 + MaxNameTail
    /\ s[1] \in AlNum
    /\ \A i \in 2..Len(s) : s[i] \in TailChars

(***************************************************************************)
(* Public keys: tokens and their byte lengths                              *)
(***************************************************************************)
WhiteSpace == {" ", "\n", "\t"}

ByteLen(tok) ==
    CASE tok \in WhiteSpace      -> 1
      [] tok = "ssh-rsa"         -> 7
      [] tok = "ssh-ed25519"     -> 11
      [] tok = "ssh-foo"         -> 7
      [] tok = "AAAA"            -> 4
      [] tok = "BBBB"            -> 4
      [] tok = "BLOB2040"        -> 2040
      [] OTHER                   -> 1

RECURSIVE StrLen(_)
StrLen(s) == IF s = <<>> THEN 0 ELSE ByteLen(Head(s)) + StrLen(Tail(s))

RECURSIVE TrimLeft(_)
TrimLeft(s) ==
    IF s # <<>> /\ Head(s) \in WhiteSpace THEN TrimLeft(Tail(s)) ELSE s

RECURSIVE TrimRight(_)
TrimRight(s) ==
    IF s # <<>> /\ s[Len(s)] \in WhiteSpace
    THEN TrimRight(SubSeq(s, 1, Len(s) - 1))
    ELSE s

TrimSpace(s) == TrimRight(TrimLeft(s))

Contains(s, tok) == \E i \in 1..Len(s) : s[i] = tok

\* strings.Fields: the maximal runs of non-whitespace, in order
RECURSIVE FieldsFrom(_, _, _)
FieldsFrom(s, cur, acc) ==
    IF s = <<>>
    THEN IF cur = <<>> THEN acc ELSE Append(acc, cur)
    ELSE IF Head(s) \in WhiteSpace
         THEN FieldsFrom(Tail(s), <<>>, IF cur = <<>> THEN acc ELSE Append(acc, cur))
         ELSE FieldsFrom(Tail(s), Append(cur, Head(s)), acc)

Fields(s) == FieldsFrom(s, <<>>, <<>>)

validTypes ==
    { <<"ssh-rsa">>, <<"ssh-ed25519">>, <<"ecdsa-sha2-nistp256">>,
      <<"ecdsa-sha2-nistp384">>, <<"ecdsa-sha2-nistp521">>, <<"ssh-dss">> }

\* validatePublicKey without the size check
validatePublicKeyNoSize(rawKey) ==
    LET key   == TrimSpace(rawKey)
        parts == Fields(key)
    IN  IF Contains(key, "\n") THEN "public key must be a single line"
        ELSE IF Len(parts) < 2 THEN "invalid SSH public key format"
        ELSE IF parts[1] \notin validTypes THEN "unsupported key type"
        ELSE ""

\* the error validatePublicKey returns, "" for nil
validatePublicKey(rawKey) ==
    LET key   == TrimSpace(rawKey)
        parts == Fields(key)
    IN  IF Contains(key, "\n") THEN "public key must be a single line"
        ELSE IF StrLen(key) > MaxKeyLen THEN "public key too large"
        ELSE IF Len(parts) < 2 THEN "invalid SSH public key format"
        ELSE IF parts[1] \notin validTypes THEN "unsupported key type"
        ELSE ""

(***************************************************************************)
(* The machines table (schema) and the statements run against it.  A row   *)
(* is a record; created_at is never read by the server and is left out.    *)
(***************************************************************************)
NULL == "NULL"
CURRENT_TIMESTAMP == "CURRENT_TIMESTAMP"

Row(id, name, owner, port, local_user, public_key, last_seen) ==
    [id |-> id, name |-> name, owner |-> owner, port |-> port,
     local_user |-> local_user, public_key |-> public_key, last_seen |-> last_seen]

NamesOf(rows) == {r.name : r \in rows}
PortsOf(rows) == {r.port : r \in rows}

\* the errors of the store, as the Go error values the handlers see
ErrNone == "nil"
ErrNoPorts == "no available ports (all 78 slots in use)"
ErrUniqueName == "UNIQUE constraint failed: machines.name"
ErrUniquePort == "UNIQUE constraint failed: machines.port"
ErrNotFound == "machine not found"
ErrStorage == "storage failure"

\* the schema without UNIQUE on port
SchemaViolationNoPort(others, row) ==
    IF row.name \in NamesOf(others) THEN ErrUniqueName ELSE ErrNone

\* the schema without UNIQUE on name
SchemaViolationNoName(others, row) ==
    IF row.port \in PortsOf(others) THEN ErrUniquePort ELSE ErrNone

\* schema: name TEXT NOT NULL UNIQUE, port INTEGER NOT NULL UNIQUE.
\* The constraint a new or changed row violates against the other rows.
SchemaViolation(others, row) ==
    IF row.name \in NamesOf(others) THEN ErrUniqueName
    ELSE IF row.port \in PortsOf(others) THEN ErrUniquePort
    ELSE ErrNone

\* a scan that returns the highest free port
AllocatePortHighest(rows) ==
    LET used == PortsOf(rows)
        free == {q \in PortMin..PortMax : q \notin used}
    IN  IF free = {} THEN 0
        ELSE CHOOSE q \in free : \A o \in free : q >= o

\* a scan that falls back to PortMin when no port is free
AllocatePortWraps(rows) ==
    LET used == PortsOf(rows)
        free == {q \in PortMin..PortMax : q \notin used}
    IN  IF free = {} THEN PortMin
        ELSE CHOOSE q \in free : \A o \in free : q <= o

\* AllocatePort: the lowest port of [PortMin, PortMax] no row holds, 0 if none
AllocatePort(rows) ==
    LET used == PortsOf(rows)
        free == {q \in PortMin..PortMax : q \notin used}
    IN  IF free = {} THEN 0
        ELSE CHOOSE q \in free : \A o \in free : q <= o

\* a lookup whose SELECT has no WHERE clause: the first row, whatever its name
GetMachineAnyRow(rows, name) ==
    IF rows = {} THEN {} ELSE {CHOOSE r \in rows : \A o \in rows : r.id <= o.id}

\* GetMachine: the rows named name (none: sql.ErrNoRows, reported as nil, nil)
GetMachine(rows, name) == {r \in rows : r.name = name}

\* ListMachines: SELECT ... ORDER BY port
RECURSIVE OrderByPort(_)
OrderByPort(rows) ==
    IF rows = {} THEN <<>>
    ELSE LET first == CHOOSE r \in rows : \A o \in rows : r.port <= o.port
         IN  <<first>> \o OrderByPort(rows \ {first})

\* a listing ORDER BY port DESC
ListMachinesDesc(rows) ==
    LET l == OrderByPort(rows)
    IN  [i \in 1..Len(l) |-> l[Len(l) + 1 - i]]

ListMachines(rows) == OrderByPort(rows)

\* a DELETE without its WHERE clause
DeleteRowsAll(rows, name) == {}

\* DeleteMachine: DELETE FROM machines WHERE name = ?
DeleteRows(rows, name) == {r \in rows : r.name # name}

\* a rename that re-inserts the row under a new id
RenamedRowNewId(r, newName) == [r EXCEPT !.name = newName, !.id = r.id + 100]

\* RenameMachine: UPDATE machines SET name = ? WHERE name = ?
RenamedRow(r, newName) == [r EXCEPT !.name = newName]

RenameRows(rows, oldName, newName) ==
    {IF r.name = oldName THEN RenamedRow(r, newName) ELSE r : r \in rows}

\* an UPDATE that is never refused for the name it sets
RenameErrorNoConflict(rows, oldName, newName) ==
    IF {r \in rows : r.name = oldName} = {} THEN ErrNotFound ELSE ErrNone

\* RenameMachine: the error it returns
RenameError(rows, oldName, newName) ==
    LET hit == {r \in rows : r.name = oldName}
    IN  IF hit = {} THEN ErrNotFound
        ELSE IF \E r \in hit : SchemaViolation(rows \ {r}, RenamedRow(r, newName)) # ErrNone
             THEN ErrUniqueName
             ELSE ErrNone

\* an UPDATE that sets nothing
TouchRowsNoStamp(rows, name) == rows

\* UpdateLastSeen: UPDATE machines SET last_seen = CURRENT_TIMESTAMP WHERE name = ?
TouchRows(rows, name) ==
    {IF r.name = name THEN [r EXCEPT !.last_seen = CURRENT_TIMESTAMP] ELSE r : r \in rows}

(***************************************************************************)
(* Derived files (internal/config).  The routing config is the document    *)
(* of its rules; a key file and authorized_keys are text, the sequence of  *)
(* their tokens; a path is the sequence of its parts.                      *)
(***************************************************************************)
KeysDir == "/data/keys"
ServerKey == "/data/server-key"
ServerPubKey == <<"ssh-ed25519", " ", "SERVER">>

\* os.ReadFile failed
ReadFailed == <<"read failed">>

\* the outcome of a file operation
IoOk == "ok"
IoFailed == "failed"

\* a file system on which every operation succeeds and the server's public
\* key is read, and one on which any operation may fail
Reliable == [ios |-> {IoOk}, reads |-> {ServerPubKey}, starts |-> {IoOk}]
Unreliable ==
    [ios |-> {IoOk, IoFailed}, reads |-> {ServerPubKey, ReadFailed}, starts |-> {IoOk}]
\* a host on which files are written but exec of sshpiperd may fail
ExecFails == [ios |-> {IoOk}, reads |-> {ServerPubKey}, starts |-> {IoOk, IoFailed}]

\* what os.Create leaves of a file whose writing then fails
TruncatedConfig == [version |-> "", pipes |-> <<>>]
TruncatedText == <<>>

\* WriteKey: the content of {KeysDir}/{name}.pub
KeyFileContent(publicKey) == publicKey \o <<"\n">>

\* a rule that logs in upstream as the machine's owner
PipeAsOwner(m) ==
    [from_username   |-> m.name,
     authorized_keys |-> <<KeysDir, "/", m.name, ".pub">>,
     to_host         |-> <<"localhost", m.port>>,
     to_username     |-> m.owner,
     private_key     |-> ServerKey,
     ignore_hostkey  |-> TRUE]

\* a rule that identifies the machine by its port instead of its name
PipeByPort(m) ==
    [from_username   |-> <<ToString(m.port)>>,
     authorized_keys |-> <<KeysDir, "/", <<ToString(m.port)>>, ".pub">>,
     to_host         |-> <<"localhost", m.port>>,
     to_username     |-> m.local_user,
     private_key     |-> ServerKey,
     ignore_hostkey  |-> TRUE]

\* one rule of sshpiperTemplate
Pipe(m) ==
    [from_username   |-> m.name,
     authorized_keys |-> <<KeysDir, "/", m.name, ".pub">>,
     to_host         |-> <<"localhost", m.port>>,
     to_username     |-> m.local_user,
     private_key     |-> ServerKey,
     ignore_hostkey  |-> TRUE]

\* Generate: the document written to ConfigPath
Generate(list) ==
    [version |-> "1.0", pipes |-> [i \in 1..Len(list) |-> Pipe(list[i])]]

\* the restrictions of a machine's entry, one field of its line
Restrictions(q) ==
    <<"permitlisten=\"localhost:", ToString(q), "\"",
      ",no-pty,no-agent-forwarding,no-X11-forwarding">>

\* one machine entry of authorized_keys: "<restrictions> <public key>\n"
AuthEntry(m) == Restrictions(m.port) \o <<" ">> \o m.public_key \o <<"\n">>

\* the bytes UpdateAuthorizedKeys starts with: the content read from
\* {ServerKey}.pub, a newline added if it does not end in one; nothing if
\* the file cannot be read or is empty
ServerEntry(read) ==
    IF read = ReadFailed \/ read = <<>> THEN <<>>
    ELSE IF read[Len(read)] # "\n" THEN read \o <<"\n">>
    ELSE read

RECURSIVE MachineEntries(_)
MachineEntries(list) ==
    IF list = <<>> THEN <<>> ELSE AuthEntry(Head(list)) \o MachineEntries(Tail(list))

\* UpdateAuthorizedKeys: the content written to authorized_keys
AuthorizedKeys(read, list) == ServerEntry(read) \o MachineEntries(list)

(***************************************************************************)
(* Inputs of the requests                                                  *)
(***************************************************************************)
LongName == [i \in 1..(MaxNameTail + 2) |-> "x"]

ValidNames == {<<"a">>, <<"b">>, <<"c", ".", "0">>}
NameInputs == ValidNames \cup {<<>>, <<"-", "a">>, <<"a", "/">>, LongName}
OwnerInputs == {<<"o">>, <<>>, <<"o", " ">>}
UserInputs == {<<"u">>, <<>>, <<".", "u">>}

KeyPlain == <<"ssh-ed25519", " ", "AAAA">>
\* 2048 bytes once trimmed, 2050 as sent: a leading blank and a final newline
KeyPadded == <<" ", "ssh-rsa", " ", "BLOB2040", "\n">>
KeyTwoLines == <<"ssh-ed25519", " ", "AAAA", "\n", "ssh-rsa", " ", "BBBB">>
KeyTooLarge == <<"ssh-rsa", " ", "BLOB2040", "AAAA">>
KeyOneField == <<"ssh-ed25519">>
KeyBlank == <<" ">>
KeyUnknownType == <<"ssh-foo", " ", "AAAA">>

KeyInputs ==
    {KeyPlain, KeyPadded, KeyTwoLines, KeyTooLarge, KeyOneField, KeyBlank,
     KeyUnknownType, <<>>}

RegisterRequest(name, owner, local_user, public_key) ==
    [name |-> name, owner |-> owner, local_user |-> local_user,
     public_key |-> public_key]

\* the register requests sent: every name with a plain key, and one request
\* with every other value of each field
RegisterInputs ==
    {RegisterRequest(n, <<"o">>, <<"u">>, KeyPlain) : n \in NameInputs}
    \cup {RegisterRequest(<<"a">>, o, <<"u">>, KeyPlain) : o \in OwnerInputs}
    \cup {RegisterRequest(<<"a">>, <<"o">>, u, KeyPlain) : u \in UserInputs}
    \cup {RegisterRequest(<<"a">>, <<"o">>, <<"u">>, k) : k \in KeyInputs}

\* the requests sent while another request is being served
CoreRegisters ==
    {RegisterRequest(n, <<"o">>, <<"u">>, KeyPlain) : n \in {<<"a">>, <<"b">>, <<>>}}
\* the register requests sent while file operations may fail; one key begins
\* with a newline
KeyLeadingNewline == <<"\n", "ssh-rsa", " ", "BBBB">>
IORegisters ==
    CoreRegisters \cup {RegisterRequest(<<"b">>, <<"o">>, <<"u">>, KeyLeadingNewline)}
CoreDeletes == {<<"a">>}
CoreHeartbeats == {<<"a">>}
CoreRenames == {<<(<<"a">>), (<<"b">>)>>}

\* the names heartbeats are sent for, and the renames asked for
HeartbeatInputs == {<<>>, <<"a">>}
RenameInputs ==
    {<<o, n>> : o \in {<<"a">>, <<"b">>}, n \in {<<"b">>, <<"c", ".", "0">>, <<"-", "a">>}}

(***************************************************************************)
(* The stores the server may be started on: a new database, or one that    *)
(* earlier runs filled up to FreeAtStart free ports.                       *)
(***************************************************************************)
DigitChar == <<"0", "1", "2", "3", "4", "5", "6", "7", "8", "9">>

FillerName(q) ==
    <<"f", DigitChar[((q - PortMin) \div 10) + 1], DigitChar[((q - PortMin) % 10) + 1]>>

FillerRow(q) ==
    Row(q - PortMin - FreeAtStart + 1, FillerName(q), <<"o">>, q, <<"u">>, KeyPlain, NULL)

Fillers == {FillerRow(q) : q \in (PortMin + FreeAtStart)..PortMax}

\* the names delete requests are sent for
DeleteInputs == ValidNames \cup {FillerName(PortMax)}

(***************************************************************************)
(* State                                                                   *)
(***************************************************************************)
(***************************************************************************)
(* The router: rate limit, then apiKeyAuth, in front of the handlers       *)
(***************************************************************************)
\* no X-API-Key header: Header.Get returns ""
NoKey == <<>>

\* the secret bastiond was started with (main refuses to start on an empty one)
Secret == <<"k", "e", "y">>

\* headers a caller may send: none, the secret, another key of its length, a
\* prefix of the secret, the secret with more after it
KeyHeaders == {NoKey, Secret, <<"k", "e", "x">>, <<"k", "e">>, <<"k", "e", "y", "s">>}

\* a comparison that stops at the end of the shorter argument
ConstantTimeComparePrefix(x, y) ==
    IF \A i \in 1..Len(x) : i <= Len(y) => x[i] = y[i] THEN 1 ELSE 0

\* subtle.ConstantTimeCompare: 1 when the two byte strings are equal, else 0
ConstantTimeCompare(x, y) ==
    IF Len(x) = Len(y) /\ \A i \in 1..Len(x) : x[i] = y[i] THEN 1 ELSE 0

\* apiKeyAuth lets the request through to the handler
apiKeyAuth(key) == ~(key = NoKey \/ ConstantTimeCompare(key, Secret) # 1)

\* what the per-IP limiter of the authenticated group decides for a request
Pass == "pass"
Limited == "limited"

\* the request reaches its handler
Admitted(key, rl) == rl = Pass /\ apiKeyAuth(key)

\* callers holding the secret and staying below the limit
Trusted == [keys |-> {Secret}, limits |-> {Pass}]

\* any caller
Anyone == [keys |-> KeyHeaders, limits |-> {Pass, Limited}]

\* the routes of the authenticated group
AuthenticatedOps == {"register", "list", "delete", "rename", "heartbeat"}

(***************************************************************************)
(* The client's tunnel: backoff                                            *)
(***************************************************************************)
\* attempts after which the model stops a Run from reconnecting
MaxAttempts == 8

\* the cap of the delay, in seconds
MaxDelay == 60

\* a delay that keeps doubling
backoffNoCap(n) == 2 ^ n

\* backoff: math.Pow(2, attempt) seconds, at most 60
backoff(n) ==
    LET secs == 2 ^ n
    IN  IF secs > MaxDelay THEN MaxDelay ELSE secs

\* ctx.Err() once the context is cancelled
Canceled == "context canceled"

VARIABLES
    machines,     \* rows of the machines table
    nextId,       \* next AUTOINCREMENT id
    keyFiles,     \* name -> content of {KeysDir}/{name}.pub, for the files that exist
    configFile,   \* content of sshpiper.yaml
    authKeys,     \* content of /home/bastion/.ssh/authorized_keys
    piperConfig,  \* the document the running sshpiperd was started on
    pc,           \* per request handler: the call it is about to make
    req,          \* per handler: the decoded request
    port,         \* per handler: m.Port of the machine being created
    list,         \* per handler: machines inside regenerateConfig
    err,          \* per handler: the last error a store call returned
    resp,         \* per handler: the response written
    fresh,        \* per handler: no row changed since its AllocatePort (history)
    logged,       \* per handler: the failures it wrote to the log
    apiKey,       \* per handler: the X-API-Key header of its request
    daemon,       \* the sshpiperd process main supervises
    ctx,          \* client: the context of connectCmd
    tpc,          \* client: where tunnel.Run is
    attempt,      \* client: Run's attempt counter
    delay,        \* client: the delay Run last computed, in seconds
    timer,        \* client: the time.After channel of Run's wait
    ret,          \* client: the error Run returned
    hpc,          \* client: where heartbeatLoop is
    tick,         \* client: the ticker channel of heartbeatLoop
    cfg,          \* client: config.json, its machine_name and assigned_port
    own,          \* client: the name its machine is registered under (history)
    remote        \* client: the RemotePort connectCmd gave tunnel.Run

vars ==
    <<machines, nextId, keyFiles, configFile, authKeys, piperConfig,
      pc, req, port, list, err, resp, fresh, logged, apiKey, daemon,
      ctx, tpc, attempt, delay, timer, ret, hpc, tick, cfg, own, remote>>

storeVars == <<machines, nextId>>
cfgVars == <<cfg, own, remote>>
clientVars == <<ctx, tpc, attempt, delay, timer, ret, hpc, tick, cfg, own, remote>>
fileVars == <<keyFiles, configFile, authKeys, piperConfig>>

NoReq == [op |-> "none"]
NoResp == [status |-> 0, error |-> "", name |-> <<>>, port |-> 0]

ErrorResp(msg, code) == [status |-> code, error |-> msg, name |-> <<>>, port |-> 0]
OkResp == [status |-> 200, error |-> "", name |-> <<>>, port |-> 0]
\* a 201 that always reports the first port of the pool
CreatedRespFirstPort(name, q) ==
    [status |-> 201, error |-> "", name |-> name, port |-> PortMin]

CreatedResp(name, q) == [status |-> 201, error |-> "", name |-> name, port |-> q]

\* the files main writes before it serves: every key, the config, authorized_keys
StartupKeyFiles(rows) ==
    [n \in NamesOf(rows) |->
        KeyFileContent((CHOOSE r \in rows : r.name = n).public_key)]

\* no name: the machine is not registered, or no argument was given
NoName == <<>>

\* connectCmd has started tunnel.Run and heartbeatLoop on a live context, for
\* the machine "a" registered with the first port
Connect ==
    /\ cfg = [machine_name |-> <<"a">>, assigned_port |-> PortMin]
    /\ own = <<"a">>
    /\ remote = PortMin
    /\ ctx = "live"
    /\ tpc = "top"
    /\ attempt = 0
    /\ delay = 0
    /\ timer = "none"
    /\ ret = ""
    /\ hpc = "select"
    /\ tick = "pending"

\* the server starts on the store `rows`, whose ids end below `id`; `reads`
\* is what reading {ServerKey}.pub may return
StartServer(rows, id, reads) ==
    /\ machines = rows
    /\ nextId = id
    /\ keyFiles = StartupKeyFiles(machines)
    /\ configFile = Generate(ListMachines(machines))
    /\ \E rd \in reads : authKeys = AuthorizedKeys(rd, ListMachines(machines))
    /\ piperConfig = configFile
    /\ pc = [p \in Procs |-> "idle"]
    /\ req = [p \in Procs |-> NoReq]
    /\ port = [p \in Procs |-> 0]
    /\ list = [p \in Procs |-> <<>>]
    /\ err = [p \in Procs |-> ErrNone]
    /\ resp = [p \in Procs |-> NoResp]
    /\ fresh = [p \in Procs |-> FALSE]
    /\ logged = [p \in Procs |-> {}]
    /\ apiKey = [p \in Procs |-> NoKey]
    /\ daemon = "running"

Start(rows, id, reads) == StartServer(rows, id, reads) /\ Connect

\* the client after `init`: a config without assigned port, nothing running
Installed ==
    /\ cfg = [machine_name |-> <<"a">>, assigned_port |-> 0]
    /\ own = NoName
    /\ remote = 0
    /\ ctx = "live"
    /\ tpc = "off"
    /\ attempt = 0
    /\ delay = 0
    /\ timer = "none"
    /\ ret = ""
    /\ hpc = "off"
    /\ tick = "none"

\* a new database and a client that has not registered yet
InitCli == StartServer({}, 1, Reliable.reads) /\ Installed

\* a new database
Init == Start({}, 1, Reliable.reads)

\* a database that earlier runs left with FreeAtStart free ports
InitFull == Start(Fillers, NumFillers + 1, Reliable.reads)

\* either
InitAny == Init \/ InitFull

\* a new database on a file system whose operations may fail
InitIO == Start({}, 1, Unreliable.reads)

\* rows inserted since the server started
Inserted == IF nextId > NumFillers THEN nextId - NumFillers - 1 ELSE nextId - 1

(***************************************************************************)
(* Handlers.Register                                                       *)
(***************************************************************************)
\* the 400 message of the checks Register makes before it reads the store, "" if none
RegisterValidation(in) ==
    IF in.name = <<>> \/ in.owner = <<>> \/ in.local_user = <<>> \/ in.public_key = <<>>
    THEN "name, owner, local_user, and public_key are required"
    ELSE IF ~validName(in.name) THEN "invalid machine name"
    ELSE IF ~validName(in.owner) THEN "invalid owner"
    ELSE IF ~validName(in.local_user) THEN "invalid local_user"
    ELSE validatePublicKey(in.public_key)

\* the handler ends: the response is written, the listing is dropped
Finish(p, e, r) ==
    /\ pc' = [pc EXCEPT ![p] = "done"]
    /\ err' = [err EXCEPT ![p] = e]
    /\ resp' = [resp EXCEPT ![p] = r]
    /\ list' = [list EXCEPT ![p] = <<>>]

RegisterReject(p, in, key, rl) ==
    /\ pc[p] = "idle"
    /\ Admitted(key, rl)
    /\ apiKey' = [apiKey EXCEPT ![p] = key]
    /\ RegisterValidation(in) # ""
    /\ req' = [req EXCEPT ![p] = [op |-> "register", name |-> in.name,
                                  owner |-> in.owner, local_user |-> in.local_user,
                                  public_key |-> in.public_key]]
    /\ Finish(p, ErrNone, ErrorResp(RegisterValidation(in), 400))
    /\ UNCHANGED <<clientVars, daemon, storeVars, fileVars, port, fresh, logged>>

RegisterAccept(p, in, key, rl) ==
    /\ pc[p] = "idle"
    /\ Admitted(key, rl)
    /\ apiKey' = [apiKey EXCEPT ![p] = key]
    /\ Inserted < MaxInserts
    /\ RegisterValidation(in) = ""
    /\ req' = [req EXCEPT ![p] = [op |-> "register", name |-> in.name,
                                  owner |-> in.owner, local_user |-> in.local_user,
                                  public_key |-> in.public_key]]
    /\ pc' = [pc EXCEPT ![p] = "GetMachine"]
    /\ UNCHANGED <<clientVars, daemon, storeVars, fileVars, port, list, err, resp,
                   fresh, logged>>

\* whether the storage engine runs a statement (nil) or fails it
StorageOutcomes == {ErrNone, ErrStorage}

\* Register without the lookup of the name
RegisterGetMachineNoCheck(p) ==
    /\ pc[p] = "GetMachine"
    /\ pc' = [pc EXCEPT ![p] = "AllocatePort"]
    /\ UNCHANGED <<clientVars, daemon, apiKey, storeVars, fileVars, req, port, list,
                   err, resp, fresh, logged>>

RegisterGetMachine(p) ==
    /\ pc[p] = "GetMachine"
    /\ \E io \in StorageOutcomes :
          IF io # ErrNone
          THEN Finish(p, io, ErrorResp("internal error", 500))
          ELSE IF GetMachine(machines, req[p].name) # {}
          THEN Finish(p, ErrNone, ErrorResp("machine already registered", 409))
          ELSE /\ pc' = [pc EXCEPT ![p] = "AllocatePort"]
               /\ UNCHANGED <<list, err, resp>>
    /\ UNCHANGED <<clientVars, daemon, apiKey, storeVars, fileVars, req, port, fresh,
                   logged>>

\* the response to any error of CreateMachine
CreateFailed(e) == ErrorResp("failed to register machine", 500)

\* CreateMachine, first statement: SELECT port FROM machines, then the scan
RegisterAllocatePort(p) ==
    /\ pc[p] = "AllocatePort"
    /\ \E io \in StorageOutcomes :
          LET e == IF io # ErrNone THEN io
                   ELSE IF AllocatePort(machines) = 0 THEN ErrNoPorts ELSE ErrNone
          IN  IF e # ErrNone
              THEN /\ Finish(p, e, CreateFailed(e))
                   /\ UNCHANGED <<port, fresh>>
              ELSE /\ port' = [port EXCEPT ![p] = AllocatePort(machines)]
                   /\ fresh' = [fresh EXCEPT ![p] = TRUE]
                   /\ pc' = [pc EXCEPT ![p] = "Insert"]
                   /\ UNCHANGED <<list, err, resp>>
    /\ UNCHANGED <<clientVars, daemon, apiKey, storeVars, fileVars, req, logged>>

\* a row whose id is taken from the number of rows, not from AUTOINCREMENT
NewRowCountedId(p) ==
    Row(Cardinality(machines) + 1, req[p].name, req[p].owner, port[p],
        req[p].local_user, req[p].public_key, NULL)

\* the row CreateMachine inserts
NewRow(p) ==
    Row(nextId, req[p].name, req[p].owner, port[p], req[p].local_user,
        req[p].public_key, NULL)

\* a row of the table changed: every other handler's scan is out of date
Stale(p) == [q \in Procs |-> IF q = p THEN fresh[q] ELSE FALSE]

\* CreateMachine, second statement: INSERT INTO machines
RegisterInsert(p) ==
    /\ pc[p] = "Insert"
    /\ \E io \in StorageOutcomes :
          LET e == IF io # ErrNone THEN io ELSE SchemaViolation(machines, NewRow(p))
          IN  IF e # ErrNone
              THEN /\ Finish(p, e, CreateFailed(e))
                   /\ UNCHANGED <<storeVars, fresh>>
              ELSE /\ machines' = machines \cup {NewRow(p)}
                   /\ nextId' = nextId + 1
                   /\ fresh' = Stale(p)
                   /\ pc' = [pc EXCEPT ![p] = "WriteKey"]
                   /\ UNCHANGED <<list, err, resp>>
    /\ UNCHANGED <<clientVars, daemon, apiKey, fileVars, req, port, logged>>

\* a failure the handler writes to the log
Log(p, what) == [logged EXCEPT ![p] = @ \cup {what}]

\* WriteKey after the insert; its failure is logged and the handler goes on
RegisterWriteKey(p, fs) ==
    /\ pc[p] = "WriteKey"
    /\ \E io \in fs.ios :
          IF io = IoOk
          THEN /\ keyFiles' = [n \in DOMAIN keyFiles \cup {req[p].name} |->
                                  IF n = req[p].name THEN KeyFileContent(req[p].public_key)
                                  ELSE keyFiles[n]]
               /\ UNCHANGED logged
          ELSE /\ logged' = Log(p, "WriteKey")
               /\ UNCHANGED keyFiles
    /\ pc' = [pc EXCEPT ![p] = "ListMachines"]
    /\ UNCHANGED <<clientVars, daemon, apiKey, storeVars, configFile, authKeys,
                   piperConfig,
                   req, port, list, err, resp, fresh>>

(***************************************************************************)
(* Handlers.regenerateConfig, as called by Register and DeleteMachine,     *)
(* and the response that follows it                                        *)
(***************************************************************************)
\* a response that turns a logged failure into an error
SuccessRespUnlessLogged(p) ==
    IF logged[p] # {} THEN ErrorResp("internal error", 500)
    ELSE IF req[p].op = "register" THEN CreatedResp(req[p].name, port[p])
    ELSE OkResp

\* the response of Register and DeleteMachine once the store has changed
SuccessResp(p) ==
    IF req[p].op = "register" THEN CreatedResp(req[p].name, port[p]) ELSE OkResp

\* ListMachines; its error is returned to the handler, which logs it
RegenerateList(p) ==
    /\ pc[p] = "ListMachines"
    /\ \E io \in StorageOutcomes :
          IF io # ErrNone
          THEN /\ Finish(p, io, SuccessResp(p))
               /\ logged' = Log(p, "ListMachines")
          ELSE /\ list' = [list EXCEPT ![p] = ListMachines(machines)]
               /\ pc' = [pc EXCEPT ![p] = "Generate"]
               /\ UNCHANGED <<err, resp, logged>>
    /\ UNCHANGED <<clientVars, daemon, apiKey, storeVars, fileVars, req, port, fresh>>

\* a Generate that opens the file for appending instead of truncating it
RegenerateGenerateAppend(p, fs) ==
    /\ pc[p] = "Generate"
    /\ \E io \in fs.ios :
          IF io = IoOk
          THEN /\ configFile' = [version |-> "1.0",
                                 pipes |-> configFile.pipes \o Generate(list[p]).pipes]
               /\ pc' = [pc EXCEPT ![p] = "UpdateAuthorizedKeys"]
               /\ UNCHANGED <<list, err, resp, logged>>
          ELSE /\ UNCHANGED configFile
               /\ Finish(p, ErrNone, SuccessResp(p))
               /\ logged' = Log(p, "Generate")
    /\ UNCHANGED <<clientVars, daemon, apiKey, storeVars, keyFiles, authKeys,
                   piperConfig, req, port, fresh>>

\* Generate; its error is returned to the handler, which logs it: the file
\* is then as it was (os.Create failed) or truncated (the write failed)
RegenerateGenerate(p, fs) ==
    /\ pc[p] = "Generate"
    /\ \E io \in fs.ios :
          IF io = IoOk
          THEN /\ configFile' = Generate(list[p])
               /\ pc' = [pc EXCEPT ![p] = "UpdateAuthorizedKeys"]
               /\ UNCHANGED <<list, err, resp, logged>>
          ELSE /\ configFile' \in {configFile, TruncatedConfig}
               /\ Finish(p, ErrNone, SuccessResp(p))
               /\ logged' = Log(p, "Generate")
    /\ UNCHANGED <<clientVars, daemon, apiKey, storeVars, keyFiles, authKeys,
                   piperConfig, req, port, fresh>>

\* UpdateAuthorizedKeys; its failure is logged and regenerateConfig goes on
RegenerateAuthorizedKeys(p, fs) ==
    /\ pc[p] = "UpdateAuthorizedKeys"
    /\ \E io \in fs.ios, rd \in fs.reads :
          IF io = IoOk
          THEN /\ authKeys' = AuthorizedKeys(rd, list[p])
               /\ UNCHANGED logged
          ELSE /\ rd = ServerPubKey
               /\ authKeys' \in {authKeys, TruncatedText}
               /\ logged' = Log(p, "UpdateAuthorizedKeys")
    /\ pc' = [pc EXCEPT ![p] = "OnChange"]
    /\ UNCHANGED <<clientVars, daemon, apiKey, storeVars, keyFiles, configFile,
                   piperConfig,
                   req, port, list, err, resp, fresh>>

\* OnChange is main's reloadConfig, called by the handler's goroutine: it
\* sends SIGTERM to sshpiperd, then calls Wait on it
RegenerateOnChange(p) ==
    /\ pc[p] = "OnChange"
    /\ daemon' = IF daemon = "running" THEN "stopping" ELSE daemon
    /\ pc' = [pc EXCEPT ![p] = "Wait"]
    /\ UNCHANGED <<clientVars, apiKey, storeVars, fileVars, req, port, list, err, resp,
                   fresh, logged>>

\* Wait returns once the signalled process has exited; reloadConfig starts
\* sshpiperd on the current document and returns, then regenerateConfig and
\* the handler return and the response is written
\* startProcess: when cmd.Start fails it calls log.Fatalf, which ends the
\* server process and with it every handler goroutine
ReloadConfigWait(p, fs) ==
    /\ pc[p] = "Wait"
    /\ daemon # "stopping"
    /\ \E st \in fs.starts :
          IF st = IoOk
          THEN /\ daemon' = "running"
               /\ piperConfig' = configFile
               /\ Finish(p, ErrNone, SuccessResp(p))
          ELSE /\ pc' = [q \in Procs |-> "fatal"]
               /\ UNCHANGED <<daemon, piperConfig, err, resp, list>>
    /\ UNCHANGED <<clientVars, apiKey, storeVars, keyFiles, configFile, authKeys,
                   req, port, fresh, logged>>

\* sshpiperd, having received SIGTERM, exits
DaemonExits ==
    /\ daemon = "stopping"
    /\ daemon' = "exited"
    /\ UNCHANGED <<clientVars, storeVars, fileVars, pc, req, port, list, err, resp,
                   fresh, logged, apiKey>>

(***************************************************************************)
(* Handlers.DeleteMachine                                                  *)
(***************************************************************************)
\* a DELETE that takes an absent name for done
DeleteErrorIdempotent(rows, name) == ErrNone

\* db.DeleteMachine: the error it returns
DeleteError(rows, name) ==
    IF GetMachine(rows, name) = {} THEN ErrNotFound ELSE ErrNone

DeleteMachine(p, name, key, rl) ==
    /\ pc[p] = "idle"
    /\ Admitted(key, rl)
    /\ apiKey' = [apiKey EXCEPT ![p] = key]
    /\ req' = [req EXCEPT ![p] = [op |-> "delete", name |-> name]]
    /\ \E io \in StorageOutcomes :
          LET e == IF io # ErrNone THEN io ELSE DeleteError(machines, name)
          IN  IF e # ErrNone
              THEN /\ Finish(p, e, ErrorResp(e, 404))
                   /\ UNCHANGED <<machines, fresh>>
              ELSE /\ machines' = DeleteRows(machines, name)
                   /\ fresh' = Stale(p)
                   /\ pc' = [pc EXCEPT ![p] = "RemoveKey"]
                   /\ UNCHANGED <<list, err, resp>>
    /\ UNCHANGED <<clientVars, daemon, nextId, fileVars, port, logged>>

\* RemoveKey after the delete; its error is discarded
DeleteRemoveKey(p, fs) ==
    /\ pc[p] = "RemoveKey"
    /\ \E io \in fs.ios :
          IF io = IoOk
          THEN keyFiles' = [n \in DOMAIN keyFiles \ {req[p].name} |-> keyFiles[n]]
          ELSE UNCHANGED keyFiles
    /\ pc' = [pc EXCEPT ![p] = "ListMachines"]
    /\ UNCHANGED <<clientVars, daemon, apiKey, storeVars, configFile, authKeys,
                   piperConfig,
                   req, port, list, err, resp, fresh, logged>>

(***************************************************************************)
(* Handlers.Heartbeat                                                      *)
(***************************************************************************)
\* db.UpdateLastSeen: the error it returns
UpdateLastSeenError(rows, name) ==
    IF GetMachine(rows, name) = {} THEN ErrNotFound ELSE ErrNone

\* a heartbeat handler that regenerates after the UPDATE
HeartbeatRegenerates(p, name, key, rl) ==
    /\ pc[p] = "idle"
    /\ Admitted(key, rl)
    /\ apiKey' = [apiKey EXCEPT ![p] = key]
    /\ req' = [req EXCEPT ![p] = [op |-> "heartbeat", name |-> name]]
    /\ \E io \in StorageOutcomes :
          LET e == IF io # ErrNone THEN io ELSE UpdateLastSeenError(machines, name)
          IN  IF name = <<>>
              THEN /\ io = ErrNone
                   /\ Finish(p, ErrNone, ErrorResp("name is required", 400))
                   /\ UNCHANGED <<machines, fresh>>
              ELSE IF e # ErrNone
              THEN /\ Finish(p, e, ErrorResp(e, 404))
                   /\ UNCHANGED <<machines, fresh>>
              ELSE /\ machines' = TouchRows(machines, name)
                   /\ fresh' = Stale(p)
                   /\ pc' = [pc EXCEPT ![p] = "ListMachines"]
                   /\ UNCHANGED <<list, err, resp>>
    /\ UNCHANGED <<clientVars, daemon, nextId, fileVars, port, logged>>

Heartbeat(p, name, key, rl) ==
    /\ pc[p] = "idle"
    /\ Admitted(key, rl)
    /\ apiKey' = [apiKey EXCEPT ![p] = key]
    /\ req' = [req EXCEPT ![p] = [op |-> "heartbeat", name |-> name]]
    /\ \E io \in StorageOutcomes :
          LET e == IF io # ErrNone THEN io ELSE UpdateLastSeenError(machines, name)
          IN  IF name = <<>>
              THEN /\ io = ErrNone
                   /\ Finish(p, ErrNone, ErrorResp("name is required", 400))
                   /\ UNCHANGED <<machines, fresh>>
              ELSE IF e # ErrNone
              THEN /\ Finish(p, e, ErrorResp(e, 404))
                   /\ UNCHANGED <<machines, fresh>>
              ELSE /\ machines' = TouchRows(machines, name)
                   /\ fresh' = Stale(p)
                   /\ Finish(p, ErrNone, OkResp)
    /\ UNCHANGED <<clientVars, daemon, nextId, fileVars, port, logged>>

(***************************************************************************)
(* Handlers.RenameMachine: validates the new name, then db.RenameMachine   *)
(***************************************************************************)
RenameMachine(p, oldName, newName, key, rl) ==
    /\ pc[p] = "idle"
    /\ Admitted(key, rl)
    /\ apiKey' = [apiKey EXCEPT ![p] = key]
    /\ req' = [req EXCEPT ![p] = [op |-> "rename", name |-> oldName, new_name |-> newName]]
    /\ \E io \in StorageOutcomes :
          LET e == IF io # ErrNone THEN io ELSE RenameError(machines, oldName, newName)
          IN  IF ~validName(newName)
              THEN /\ io = ErrNone
                   /\ Finish(p, ErrNone, ErrorResp("invalid machine name", 400))
                   /\ UNCHANGED <<machines, fresh>>
              ELSE IF e # ErrNone
              THEN /\ Finish(p, e, ErrorResp(e, IF e = ErrNotFound THEN 404
                                                ELSE IF e = ErrUniqueName THEN 409
                                                ELSE 500))
                   /\ UNCHANGED <<machines, fresh>>
              ELSE /\ machines' = RenameRows(machines, oldName, newName)
                   /\ fresh' = Stale(p)
                   /\ Finish(p, ErrNone, OkResp)
    /\ UNCHANGED <<clientVars, daemon, nextId, fileVars, port, logged>>

(***************************************************************************)
(* Requests the middleware answers, and the two read-only handlers         *)
(***************************************************************************)
\* a request to a route of the authenticated group that the limiter or
\* apiKeyAuth answers; the limiter comes first in the chain
Refuse(p, op, key, rl) ==
    /\ pc[p] = "idle"
    /\ ~Admitted(key, rl)
    /\ apiKey' = [apiKey EXCEPT ![p] = key]
    /\ req' = [req EXCEPT ![p] = [op |-> op]]
    /\ Finish(p, ErrNone, IF rl = Limited THEN ErrorResp("Too Many Requests", 429)
                          ELSE ErrorResp("unauthorized", 401))
    /\ UNCHANGED <<clientVars, daemon, storeVars, fileVars, port, fresh, logged>>

\* one entry of the list response
ListEntry(m) ==
    [name |-> m.name, owner |-> m.owner, port |-> m.port,
     local_user |-> m.local_user, last_seen |-> m.last_seen]

\* Handlers.ListMachines, GET /api/machines
HandleListMachines(p, key, rl) ==
    /\ pc[p] = "idle"
    /\ Admitted(key, rl)
    /\ apiKey' = [apiKey EXCEPT ![p] = key]
    /\ req' = [req EXCEPT ![p] = [op |-> "list"]]
    /\ \E io \in StorageOutcomes :
          IF io # ErrNone
          THEN Finish(p, io, ErrorResp("internal error", 500))
          ELSE LET l == ListMachines(machines)
               IN  Finish(p, ErrNone,
                          [status |-> 200, error |-> "", name |-> <<>>, port |-> 0,
                           machines |-> [i \in 1..Len(l) |-> ListEntry(l[i])]])
    /\ UNCHANGED <<clientVars, daemon, storeVars, fileVars, port, fresh, logged>>

\* Handlers.Status, GET /api/status: outside the authenticated group, behind
\* the global limiter only
Status(p, key, rl) ==
    /\ pc[p] = "idle"
    /\ apiKey' = [apiKey EXCEPT ![p] = key]
    /\ req' = [req EXCEPT ![p] = [op |-> "status"]]
    /\ \E io \in StorageOutcomes :
          IF rl = Limited
          THEN /\ io = ErrNone
               /\ Finish(p, ErrNone, ErrorResp("Too Many Requests", 429))
          ELSE IF io # ErrNone
          THEN Finish(p, io, ErrorResp("internal error", 500))
          ELSE Finish(p, ErrNone,
                      [status |-> 200, error |-> "", name |-> <<>>, port |-> 0,
                       machine_count |-> Cardinality(machines)])
    /\ UNCHANGED <<clientVars, daemon, storeVars, fileVars, port, fresh, logged>>

(***************************************************************************)
(* The handler returns; the goroutine serves its next request              *)
(***************************************************************************)
Return(p) ==
    /\ pc[p] = "done"
    /\ pc' = [pc EXCEPT ![p] = "idle"]
    /\ req' = [req EXCEPT ![p] = NoReq]
    /\ port' = [port EXCEPT ![p] = 0]
    /\ err' = [err EXCEPT ![p] = ErrNone]
    /\ resp' = [resp EXCEPT ![p] = NoResp]
    /\ fresh' = [fresh EXCEPT ![p] = FALSE]
    /\ logged' = [logged EXCEPT ![p] = {}]
    /\ apiKey' = [apiKey EXCEPT ![p] = NoKey]
    /\ UNCHANGED <<clientVars, daemon, storeVars, fileVars, list>>

(***************************************************************************)
(* The client: connectCmd's context, tunnel.Run, heartbeatLoop             *)
(***************************************************************************)
(***************************************************************************)
(* main: the server process is started again, on the store and the files   *)
(* the previous process left                                               *)
(***************************************************************************)
\* a start that regenerates the config and authorized_keys but writes no key
mainKeepsKeys(fs) ==
    /\ \E db \in StorageOutcomes, gen \in fs.ios, ak \in fs.ios, rd \in fs.reads,
          st \in fs.starts :
          LET l  == ListMachines(machines)
              ok == db = ErrNone /\ gen = IoOk /\ st = IoOk
          IN  /\ UNCHANGED keyFiles
              /\ configFile' \in
                    IF db # ErrNone THEN {configFile}
                    ELSE IF gen = IoOk THEN {Generate(l)}
                    ELSE {configFile, TruncatedConfig}
              /\ authKeys' \in
                    IF db # ErrNone \/ gen # IoOk THEN {authKeys}
                    ELSE IF ak = IoOk THEN {AuthorizedKeys(rd, l)}
                    ELSE {authKeys, TruncatedText}
              /\ pc' = [p \in Procs |-> IF ok THEN "idle" ELSE "fatal"]
              /\ daemon' = IF ok THEN "running" ELSE daemon
              /\ piperConfig' = IF ok THEN configFile' ELSE piperConfig
    /\ req' = [p \in Procs |-> NoReq]
    /\ port' = [p \in Procs |-> 0]
    /\ list' = [p \in Procs |-> <<>>]
    /\ err' = [p \in Procs |-> ErrNone]
    /\ resp' = [p \in Procs |-> NoResp]
    /\ fresh' = [p \in Procs |-> FALSE]
    /\ logged' = [p \in Procs |-> {}]
    /\ apiKey' = [p \in Procs |-> NoKey]
    /\ UNCHANGED <<clientVars, storeVars>>

\* main up to the point where it serves.  It lists the machines (Fatalf on
\* error), writes the key of every machine (a failure is logged: the keys
\* of `bad` are not written), writes the config (Fatalf on error), writes
\* authorized_keys (a failure is logged) and starts sshpiperd (Fatalf on
\* error).  The handlers of the previous process are gone.
main(fs) ==
    /\ \E db \in StorageOutcomes, gen \in fs.ios, ak \in fs.ios, rd \in fs.reads,
          st \in fs.starts,
          bad \in SUBSET (IF IoFailed \in fs.ios THEN NamesOf(machines) ELSE {}) :
          LET l       == ListMachines(machines)
              ok      == db = ErrNone /\ gen = IoOk /\ st = IoOk
              written == NamesOf(machines) \ bad
          IN  /\ keyFiles' =
                    IF db # ErrNone THEN keyFiles
                    ELSE [n \in DOMAIN keyFiles \cup written |->
                             IF n \in written THEN StartupKeyFiles(machines)[n]
                             ELSE keyFiles[n]]
              /\ configFile' \in
                    IF db # ErrNone THEN {configFile}
                    ELSE IF gen = IoOk THEN {Generate(l)}
                    ELSE {configFile, TruncatedConfig}
              /\ authKeys' \in
                    IF db # ErrNone \/ gen # IoOk THEN {authKeys}
                    ELSE IF ak = IoOk THEN {AuthorizedKeys(rd, l)}
                    ELSE {authKeys, TruncatedText}
              /\ pc' = [p \in Procs |-> IF ok THEN "idle" ELSE "fatal"]
              /\ daemon' = IF ok THEN "running" ELSE daemon
              /\ piperConfig' = IF ok THEN configFile' ELSE piperConfig
    /\ req' = [p \in Procs |-> NoReq]
    /\ port' = [p \in Procs |-> 0]
    /\ list' = [p \in Procs |-> <<>>]
    /\ err' = [p \in Procs |-> ErrNone]
    /\ resp' = [p \in Procs |-> NoResp]
    /\ fresh' = [p \in Procs |-> FALSE]
    /\ logged' = [p \in Procs |-> {}]
    /\ apiKey' = [p \in Procs |-> NoKey]
    /\ UNCHANGED <<clientVars, storeVars>>

serverVars ==
    <<machines, nextId, keyFiles, configFile, authKeys, piperConfig,
      pc, req, port, list, err, resp, fresh, logged, apiKey, daemon>>

\* the signal goroutine of connectCmd calls cancel()
Cancel ==
    /\ ctx = "live"
    /\ ctx' = "cancelled"
    /\ UNCHANGED <<tpc, attempt, delay, timer, ret, hpc, tick, serverVars, cfgVars>>

\* Run returns ctx.Err()
RunReturns ==
    /\ tpc' = "returned"
    /\ ret' = Canceled

\* the head of Run's loop: return if the context is done, else start ssh
RunTop ==
    /\ tpc = "top"
    /\ IF ctx = "cancelled"
       THEN RunReturns
       ELSE tpc' = "runOnce" /\ UNCHANGED ret
    /\ UNCHANGED <<ctx, attempt, delay, timer, hpc, tick, serverVars, cfgVars>>

\* runOnce returns: ssh has failed to connect, lost the connection, exited
\* cleanly, or was killed because the context of CommandContext is done
RunOnce ==
    /\ tpc = "runOnce"
    /\ tpc' = "ranOnce"
    /\ UNCHANGED <<ctx, attempt, delay, timer, ret, hpc, tick, serverVars, cfgVars>>

\* a Run that gives up after its third failed attempt
RunAfterGivesUp ==
    /\ tpc = "ranOnce"
    /\ ctx = "cancelled" \/ attempt < MaxAttempts
    /\ IF ctx = "cancelled" \/ attempt >= 3
       THEN RunReturns /\ UNCHANGED <<attempt, delay, timer>>
       ELSE /\ attempt' = attempt + 1
            /\ delay' = backoff(attempt + 1)
            /\ timer' = "pending"
            /\ tpc' = "wait"
            /\ UNCHANGED ret
    /\ UNCHANGED <<ctx, hpc, tick, serverVars, cfgVars>>

\* after runOnce: return if the context is done, else count the attempt,
\* compute the delay and enter the select on ctx.Done() and time.After(delay)
RunAfter ==
    /\ tpc = "ranOnce"
    /\ ctx = "cancelled" \/ attempt < MaxAttempts
    /\ IF ctx = "cancelled"
       THEN RunReturns /\ UNCHANGED <<attempt, delay, timer>>
       ELSE /\ attempt' = attempt + 1
            /\ delay' = backoff(attempt + 1)
            /\ timer' = "pending"
            /\ tpc' = "wait"
            /\ UNCHANGED ret
    /\ UNCHANGED <<ctx, hpc, tick, serverVars, cfgVars>>

\* the channels of Run's second select that are ready
RunReady ==
    {ch \in {"done", "timer"} : IF ch = "done" THEN ctx = "cancelled" ELSE timer = "fired"}

\* a wait that receives from the timer only
RunWaitTimerOnly ==
    /\ tpc = "wait"
    /\ timer = "fired"
    /\ tpc' = "top"
    /\ timer' = "none"
    /\ UNCHANGED <<ctx, attempt, delay, ret, hpc, tick, serverVars, cfgVars>>

\* Run's second select proceeds on a ready channel: it returns on
\* ctx.Done(), goes back to the head of the loop on the timer
RunWait ==
    /\ tpc = "wait"
    /\ \E ch \in RunReady :
          IF ch = "done"
          THEN RunReturns /\ UNCHANGED timer
          ELSE tpc' = "top" /\ timer' = "none" /\ UNCHANGED ret
    /\ UNCHANGED <<ctx, attempt, delay, hpc, tick, serverVars, cfgVars>>

\* the delay of time.After has elapsed
TimerFires ==
    /\ tpc = "wait"
    /\ timer = "pending"
    /\ timer' = "fired"
    /\ UNCHANGED <<ctx, tpc, attempt, delay, ret, hpc, tick, serverVars, cfgVars>>

\* the channels of heartbeatLoop's select that are ready
HeartbeatReady ==
    {ch \in {"done", "tick"} : IF ch = "done" THEN ctx = "cancelled" ELSE tick = "fired"}

\* heartbeatLoop's select proceeds: it returns on ctx.Done(), sends a
\* heartbeat on a tick
HeartbeatSelect ==
    /\ hpc = "select"
    /\ \E ch \in HeartbeatReady :
          IF ch = "done"
          THEN hpc' = "returned" /\ UNCHANGED tick
          ELSE hpc' = "request" /\ tick' = "pending"
    /\ UNCHANGED <<ctx, tpc, attempt, delay, timer, ret, serverVars, cfgVars>>

\* apiRequest returns, with a response or, 15 seconds at the latest, an error
HeartbeatRequest ==
    /\ hpc = "request"
    /\ hpc' = "select"
    /\ UNCHANGED <<ctx, tpc, attempt, delay, timer, ret, tick, serverVars, cfgVars>>

\* five minutes have passed on the ticker
TickFires ==
    /\ hpc # "returned"
    /\ tick = "pending"
    /\ tick' = "fired"
    /\ UNCHANGED <<ctx, tpc, attempt, delay, timer, ret, hpc, serverVars, cfgVars>>

(***************************************************************************)
(* The client's commands (cmd/bastion).  Each loads config.json, talks to   *)
(* the server and saves config.json; the server's answer is an input.      *)
(***************************************************************************)
\* the names the user types, and the ports a 201 may carry
CliNames == {<<"a">>, <<"b">>}
CliPorts == {PortMin, PortMin + 1}

\* the keys of `config set`
validKeys == {"server_url", "api_key", "machine_name", "key_path"}
readOnlyKeys == {"assigned_port"}

\* setConfigValue, on the two fields of the config kept here
setConfigValue(c, key, value) ==
    IF key = "machine_name" THEN [c EXCEPT !.machine_name = value] ELSE c

\* saveConfig: the file is replaced when the write succeeds
saveConfig(c, io) == IF io = IoOk THEN c ELSE cfg

\* registerCmd: POST /api/register for cfg.MachineName; on 201 it stores the
\* port of the response
registerCmd(fs, status, q) ==
    /\ IF status # 201
       THEN UNCHANGED <<cfg, own>>
       ELSE /\ own' = cfg.machine_name
            /\ \E io \in fs.ios :
                  cfg' = saveConfig([cfg EXCEPT !.assigned_port = q], io)
    /\ UNCHANGED <<ctx, tpc, attempt, delay, timer, ret, hpc, tick, remote, serverVars>>

\* deleteCmd: DELETE /api/machines/{name}, name the argument or
\* cfg.MachineName; on 200 for cfg.MachineName it clears the port
deleteCmd(fs, arg, status) ==
    /\ LET name == IF arg = NoName THEN cfg.machine_name ELSE arg
       IN  IF status # 200
           THEN UNCHANGED <<cfg, own>>
           ELSE /\ own' = IF name = own THEN NoName ELSE own
                /\ \E io \in fs.ios :
                      cfg' = IF name = cfg.machine_name
                             THEN saveConfig([cfg EXCEPT !.assigned_port = 0], io)
                             ELSE cfg
    /\ UNCHANGED <<ctx, tpc, attempt, delay, timer, ret, hpc, tick, remote, serverVars>>

\* renameCmd: PUT /api/machines/{cfg.MachineName}/rename; on 200 it stores
\* the new name
renameCmd(fs, newName, status) ==
    /\ IF status # 200
       THEN UNCHANGED <<cfg, own>>
       ELSE /\ own' = IF own = cfg.machine_name THEN newName ELSE own
            /\ \E io \in fs.ios :
                  cfg' = saveConfig([cfg EXCEPT !.machine_name = newName], io)
    /\ UNCHANGED <<ctx, tpc, attempt, delay, timer, ret, hpc, tick, remote, serverVars>>

\* `config set <key> <value>`: refused for a key that is not in validKeys
configSet(fs, key, value) ==
    /\ IF key \notin validKeys
       THEN UNCHANGED cfg
       ELSE \E io \in fs.ios : cfg' = saveConfig(setConfigValue(cfg, key, value), io)
    /\ UNCHANGED <<own, ctx, tpc, attempt, delay, timer, ret, hpc, tick, remote,
                   serverVars>>

\* connectCmd, while no earlier connect is running: it returns an error when
\* the config has no assigned port, else it creates the context, starts
\* heartbeatLoop and calls tunnel.Run with RemotePort = cfg.AssignedPort
connectCmd ==
    /\ tpc \in {"off", "returned"}
    /\ hpc \in {"off", "returned"}
    /\ IF cfg.assigned_port = 0
       THEN UNCHANGED <<ctx, tpc, attempt, delay, timer, ret, hpc, tick, remote>>
       ELSE /\ ctx' = "live"
            /\ tpc' = "top"
            /\ attempt' = 0
            /\ delay' = 0
            /\ timer' = "none"
            /\ ret' = ""
            /\ hpc' = "select"
            /\ tick' = "pending"
            /\ remote' = cfg.assigned_port
    /\ UNCHANGED <<cfg, own, serverVars>>

\* one step of handler p, its requests drawn from the given inputs and sent
\* by the callers net, on the file system fs
Serve(p, registers, deletes, heartbeats, renames, fs, net) ==
    \/ \E in \in registers, k \in net.keys, rl \in net.limits : RegisterReject(p, in, k, rl)
    \/ \E in \in registers, k \in net.keys, rl \in net.limits : RegisterAccept(p, in, k, rl)
    \/ RegisterGetMachine(p)
    \/ RegisterAllocatePort(p)
    \/ RegisterInsert(p)
    \/ RegisterWriteKey(p, fs)
    \/ RegenerateList(p)
    \/ RegenerateGenerate(p, fs)
    \/ RegenerateAuthorizedKeys(p, fs)
    \/ RegenerateOnChange(p)
    \/ ReloadConfigWait(p, fs)
    \/ \E name \in deletes, k \in net.keys, rl \in net.limits : DeleteMachine(p, name, k, rl)
    \/ DeleteRemoveKey(p, fs)
    \/ \E name \in heartbeats, k \in net.keys, rl \in net.limits : Heartbeat(p, name, k, rl)
    \/ \E rn \in renames, k \in net.keys, rl \in net.limits :
            RenameMachine(p, rn[1], rn[2], k, rl)
    \/ Return(p)

\* one step of handler p when only registrations and deletions are requested
ServeRegistry(p, registers, deletes, fs, net) ==
    \/ \E in \in registers, k \in net.keys, rl \in net.limits : RegisterReject(p, in, k, rl)
    \/ \E in \in registers, k \in net.keys, rl \in net.limits : RegisterAccept(p, in, k, rl)
    \/ RegisterGetMachine(p)
    \/ RegisterAllocatePort(p)
    \/ RegisterInsert(p)
    \/ RegisterWriteKey(p, fs)
    \/ RegenerateList(p)
    \/ RegenerateGenerate(p, fs)
    \/ RegenerateAuthorizedKeys(p, fs)
    \/ RegenerateOnChange(p)
    \/ ReloadConfigWait(p, fs)
    \/ \E name \in deletes, k \in net.keys, rl \in net.limits : DeleteMachine(p, name, k, rl)
    \/ DeleteRemoveKey(p, fs)
    \/ Return(p)

\* one step of handler p on a request that changes nothing: one the
\* middleware answers, a listing, a status query
ServeRead(p, net) ==
    \/ \E op \in AuthenticatedOps, k \in net.keys, rl \in net.limits : Refuse(p, op, k, rl)
    \/ \E k \in net.keys, rl \in net.limits : HandleListMachines(p, k, rl)
    \/ \E k \in net.keys, rl \in net.limits : Status(p, k, rl)

\* requests served concurrently, one goroutine each
Next ==
    \/ \E p \in Procs :
          Serve(p, CoreRegisters, CoreDeletes, CoreHeartbeats, CoreRenames, Reliable, Trusted)
    \/ DaemonExits

\* requests served one after the other
NextSeq ==
    \/ Serve(1, RegisterInputs, DeleteInputs, HeartbeatInputs, RenameInputs, Reliable, Trusted)
    \/ DaemonExits

\* requests served one after the other while file operations may fail
NextIO ==
    \/ Serve(1, IORegisters, CoreDeletes, CoreHeartbeats, CoreRenames, Unreliable, Trusted)
    \/ DaemonExits

\* registrations and deletions served concurrently
NextRegistry ==
    \/ \E p \in Procs : ServeRegistry(p, CoreRegisters, CoreDeletes, Reliable, Trusted)
    \/ DaemonExits

\* requests of any caller, with or without the secret, served one after the other
NextAuth ==
    \/ Serve(1, CoreRegisters, CoreDeletes, CoreHeartbeats, CoreRenames, Reliable, Anyone)
    \/ ServeRead(1, Anyone)
    \/ DaemonExits

\* requests served one after the other while file operations may fail, and
\* the server process is restarted at any moment
NextRestart ==
    \/ Serve(1, IORegisters, CoreDeletes, CoreHeartbeats, CoreRenames, Unreliable, Trusted)
    \/ DaemonExits
    \/ main(Unreliable)

\* registrations and deletions served concurrently on a host on which the
\* start of sshpiperd may fail
NextReload ==
    \/ \E p \in Procs : ServeRegistry(p, CoreRegisters, CoreDeletes, ExecFails, Trusted)
    \/ DaemonExits

\* the client after connectCmd has started it
NextClient ==
    \/ Cancel
    \/ RunTop
    \/ RunOnce
    \/ RunAfter
    \/ RunWait
    \/ TimerFires
    \/ HeartbeatSelect
    \/ HeartbeatRequest
    \/ TickFires

\* the user's commands and the goroutines connectCmd started; the server
\* answers a register with 201 or 409, a delete with 200 or 404, a rename
\* with 200, 404 or 409
NextCli ==
    \/ \E status \in {201, 409}, q \in CliPorts : registerCmd(Reliable, status, q)
    \/ \E arg \in CliNames \cup {NoName}, status \in {200, 404} :
          deleteCmd(Reliable, arg, status)
    \/ \E newName \in CliNames, status \in {200, 404, 409} :
          renameCmd(Reliable, newName, status)
    \/ \E key \in validKeys \cup readOnlyKeys, value \in CliNames :
          configSet(Reliable, key, value)
    \/ connectCmd
    \/ NextClient

Spec == Init /\ [][Next]_vars

\* the client's commands on a machine that `init` has set up
SpecCli == InitCli /\ [][NextCli]_vars

\* the client alone. Each goroutine that can take a step takes it, a timer
\* that was started fires, a heartbeat request returns; ssh is only known to
\* end once the context it was started with is done; a select chooses at
\* random among its ready cases, so heartbeatLoop, finding ctx.Done() ready
\* again and again, does not take the tick every time
SpecClient ==
    /\ Init
    /\ [][NextClient]_vars
    /\ WF_vars(RunTop)
    /\ WF_vars(RunOnce /\ ctx = "cancelled")
    /\ WF_vars(RunAfter)
    /\ WF_vars(RunWait)
    /\ WF_vars(TimerFires)
    /\ WF_vars(HeartbeatSelect)
    /\ SF_vars(HeartbeatSelect /\ hpc' = "returned")
    /\ WF_vars(HeartbeatRequest)
    /\ WF_vars(TickFires)

\* sequential requests of any caller on a new database
SpecAuth == Init /\ [][NextAuth]_vars

\* concurrent registrations and deletions on a new database
SpecRegistry == Init /\ [][NextRegistry]_vars

\* concurrent registrations and deletions, the daemon's restart may fail
SpecReload == Init /\ [][NextReload]_vars

\* sequential requests and restarts, file operations failing at will
SpecRestart == InitIO /\ [][NextRestart]_vars

\* concurrent requests on a nearly full store
SpecFull == InitFull /\ [][Next]_vars

\* sequential requests on either store
SpecSeq == InitAny /\ [][NextSeq]_vars

\* sequential requests, of every input, on a new database
SpecNew == Init /\ [][NextSeq]_vars

\* sequential requests on a new database, file operations failing at will
SpecIO == InitIO /\ [][NextIO]_vars

TypeOK ==
    /\ \A r \in machines : r.port \in Nat /\ r.id \in Nat
    /\ nextId \in Nat
    /\ pc \in [Procs -> {"idle", "GetMachine", "AllocatePort", "Insert", "WriteKey",
                         "RemoveKey", "ListMachines", "Generate",
                         "UpdateAuthorizedKeys", "OnChange", "Wait", "done", "fatal"}]
    /\ daemon \in {"running", "stopping", "exited"}
    /\ \A p \in Procs : apiKey[p] \in KeyHeaders
    /\ ctx \in {"live", "cancelled"}
    /\ tpc \in {"off", "top", "runOnce", "ranOnce", "wait", "returned"}
    /\ attempt \in 0..MaxAttempts
    /\ delay \in 0..MaxDelay
    /\ timer \in {"none", "pending", "fired"}
    /\ ret \in {"", Canceled}
    /\ hpc \in {"off", "select", "request", "returned"}
    /\ tick \in {"none", "pending", "fired"}
    /\ cfg.assigned_port \in {0} \cup (PortMin..PortMax)
    /\ remote \in {0} \cup (PortMin..PortMax)

(***************************************************************************)
(* Properties                                                              *)
(***************************************************************************)
RegisterDone(p) == pc[p] = "done" /\ req[p].op = "register"

\* C1: in every reachable state no two machines of the store hold the same
\* port, and every stored port lies in [PortMin, PortMax].
C1_PortsUniqueInRange ==
    /\ \A r1, r2 \in machines : r1.port = r2.port => r1 = r2
    /\ \A r \in machines : PortMin <= r.port /\ r.port <= PortMax

\* two machines are stored and a registration has lost the race for a port
C1_Witness ==
    /\ Cardinality(machines) = 2
    /\ \E p \in Procs : RegisterDone(p) /\ err[p] = ErrUniquePort

\* C2: of two concurrent registrations with distinct, valid, unregistered names
\* and two free ports, neither fails because the other took the port it computed.
C2_NoRegistrationLosesItsPort ==
    \A p \in Procs : RegisterDone(p) => err[p] # ErrUniquePort

\* C5: in every reachable state no two machines of the store have the same name.
C5_NamesUnique ==
    \A r1, r2 \in machines : r1.name = r2.name => r1 = r2

\* two machines are stored and a rename or an insert was refused for its name
C5_Witness ==
    /\ Cardinality(machines) = 2
    /\ \E p \in Procs : pc[p] = "done" /\ err[p] = ErrUniqueName

PoolFull(rows) == \A q \in PortMin..PortMax : q \in PortsOf(rows)

LowestFree(q, rows) ==
    /\ PortMin <= q /\ q <= PortMax
    /\ q \notin PortsOf(rows)
    /\ \A o \in PortMin..(q - 1) : o \in PortsOf(rows)

\* C3: when no row changed between the port scan and the insert of a
\* CreateMachine, the inserted machine holds the lowest port of
\* [PortMin, PortMax] that no stored machine held.
C3_LowestFreePort ==
    [][\A p \in Procs :
          (pc[p] = "Insert" /\ pc'[p] = "WriteKey" /\ fresh[p]) =>
              \E r \in machines' \ machines :
                  r.name = req[p].name /\ LowestFree(r.port, machines)]_vars

\* the machine holding PortMax was deleted from a full pool and the next
\* registration was given PortMax
C3_Witness ==
    \E r \in machines :
        /\ r.port = PortMax
        /\ r.name \in ValidNames
        /\ Cardinality(machines) = PortMax - PortMin + 1

\* C4: with all PortMax-PortMin+1 ports held a registration ends at its port
\* scan with the pool-exhausted error (or the storage failure of the scan) and
\* status 500, the table and the id sequence unchanged; with a port free the
\* scan never reports exhaustion, and the insert that follows an undisturbed
\* scan stores the machine unless the storage engine fails it.
C4_PoolExhausted ==
    [][\A p \in Procs :
          /\ (pc[p] = "AllocatePort" /\ pc'[p] # "AllocatePort") =>
                IF PoolFull(machines)
                THEN /\ pc'[p] = "done"
                     /\ err'[p] \in {ErrNoPorts, ErrStorage}
                     /\ resp'[p].status = 500
                     /\ UNCHANGED <<machines, nextId, keyFiles, configFile, authKeys>>
                ELSE /\ err'[p] \in {ErrNone, ErrStorage}
                     /\ err'[p] = ErrNone => pc'[p] = "Insert"
          /\ (/\ pc[p] = "Insert" /\ pc'[p] # "Insert"
              /\ fresh[p] /\ req[p].name \notin NamesOf(machines)
              /\ err'[p] # ErrStorage) =>
                /\ pc'[p] = "WriteKey"
                /\ \E r \in machines' : r.name = req[p].name /\ r.port = port[p]
                /\ Cardinality(machines') = Cardinality(machines) + 1]_vars

\* a registration met the full pool and was refused
C4_Witness ==
    \E p \in Procs :
        /\ RegisterDone(p)
        /\ err[p] = ErrNoPorts
        /\ PoolFull(machines)
        /\ Cardinality(machines) = PortMax - PortMin + 1

\* C6: a registration that finds its name in the store ends there with 409
\* "machine already registered" (or the storage failure of the lookup): the
\* table, the id sequence, the key files, the config, authorized_keys and the
\* loaded config are unchanged, and a handler that has responded only returns.
C6_DuplicateNameRefused ==
    [][\A p \in Procs :
          /\ (/\ pc[p] = "GetMachine" /\ pc'[p] # "GetMachine"
              /\ req[p].name \in NamesOf(machines)) =>
                /\ pc'[p] = "done"
                /\ \/ resp'[p] = ErrorResp("machine already registered", 409)
                   \/ err'[p] = ErrStorage
                /\ UNCHANGED <<storeVars, fileVars>>
          /\ (pc[p] = "done" /\ pc'[p] # "done") =>
                /\ pc'[p] = "idle"
                /\ UNCHANGED <<storeVars, fileVars>>]_vars

\* a registration of a stored name was answered 409
C6_Witness ==
    \E p \in Procs :
        /\ RegisterDone(p)
        /\ resp[p] = ErrorResp("machine already registered", 409)
        /\ req[p].name \in NamesOf(machines)

\* the kind of failure a finished registration reports
FailureKind(p) ==
    IF err[p] = ErrNoPorts THEN "PoolExhausted"
    ELSE IF err[p] = ErrStorage /\ resp[p].status >= 400 THEN "StorageError"
    ELSE IF resp[p].status = 400 THEN "ValidationError"
    ELSE IF resp[p].status = 409 THEN "NameConflict"
    ELSE "none"

\* C7: two registrations that fail for different kinds of reason (validation,
\* name conflict, pool exhausted, storage failure) get different responses.
C7_FailureKindsDistinguishable ==
    \A p, q \in Procs :
        (/\ RegisterDone(p) /\ RegisterDone(q)
         /\ FailureKind(p) # "none" /\ FailureKind(q) # "none"
         /\ FailureKind(p) # FailureKind(q)) =>
            resp[p] # resp[q]

NameRuleBroken(s) == s = <<>> \/ ~validName(s)

KeyRuleBroken(k) ==
    LET t == TrimSpace(k)
    IN  \/ Contains(t, "\n")
        \/ StrLen(t) > MaxKeyLen
        \/ Len(Fields(t)) < 2
        \/ Fields(t)[1] \notin validTypes

C9_StoredKeysTrimmedSingleLine ==
    \A r \in machines :
        /\ TrimSpace(r.public_key) = r.public_key
        /\ ~Contains(r.public_key, "\n")
        /\ StrLen(r.public_key) <= MaxKeyLen

RenameOk(p) ==
    /\ pc[p] = "idle" /\ pc'[p] = "done"
    /\ req'[p].op = "rename"
    /\ resp'[p].status = 200

\* the step moves the record named old to the name new and changes nothing else
RenameEffect(old, new) ==
    /\ GetMachine(machines', old) = {}
    /\ \E r \in GetMachine(machines, old) :
          \E r2 \in machines' :
              /\ GetMachine(machines', new) = {r2}
              /\ r2.id = r.id /\ r2.owner = r.owner /\ r2.local_user = r.local_user
              /\ r2.port = r.port /\ r2.public_key = r.public_key
              /\ machines' \ {r2} = machines \ {r}
    /\ Cardinality(machines') = Cardinality(machines)
    /\ nextId' = nextId

\* C10 as stated: after any successful RenameMachine(old, new), old is absent
\* and new holds the record that old held, nothing else changed.
C10_RenameMovesRecord ==
    [][\A p \in Procs :
          RenameOk(p) => RenameEffect(req'[p].name, req'[p].new_name)]_vars

\* C10, amended: after a successful RenameMachine(old, new) with new # old,
\* old is absent and new, absent before, holds the record old held with the
\* same id, owner, local_user, port and public_key; the number of machines and
\* every other record are unchanged, in one step of the store.
C10_RenameToOtherNameMovesRecord ==
    [][\A p \in Procs :
          (RenameOk(p) /\ req'[p].name # req'[p].new_name) =>
              /\ GetMachine(machines, req'[p].new_name) = {}
              /\ RenameEffect(req'[p].name, req'[p].new_name)]_vars

\* a machine was renamed to another name while a second machine is stored
C10_Witness ==
    \E p \in Procs :
        /\ pc[p] = "done" /\ req[p].op = "rename" /\ resp[p].status = 200
        /\ req[p].name # req[p].new_name
        /\ GetMachine(machines, req[p].new_name) # {}
        /\ GetMachine(machines, req[p].name) = {}
        /\ Cardinality(machines) >= 2

\* a rename request is answered in this step of handler p
RenameStep(p) == pc[p] = "idle" /\ pc'[p] = "done" /\ req'[p].op = "rename"

\* the rename of old to new is refused for the name and alters no record
RenameRefused(p) ==
    /\ err'[p] \in {ErrUniqueName, ErrStorage}
    /\ resp'[p].status >= 400
    /\ UNCHANGED <<storeVars, fileVars>>

\* C11 as stated: RenameMachine(old, new) fails with a name conflict and
\* alters no record for every choice of old and new among the stored names.
C11_RenameToStoredNameRefused ==
    [][\A p \in Procs :
          (/\ RenameStep(p)
           /\ req'[p].name \in NamesOf(machines)
           /\ req'[p].new_name \in NamesOf(machines)) => RenameRefused(p)]_vars

\* C11, amended: RenameMachine(old, new) with old and new the names of two
\* different stored machines fails with a name conflict (or with the storage
\* failure of the statement) and alters no record.
C11_RenameToOtherStoredNameRefused ==
    [][\A p \in Procs :
          (/\ RenameStep(p)
           /\ req'[p].name \in NamesOf(machines)
           /\ req'[p].new_name \in NamesOf(machines)
           /\ req'[p].name # req'[p].new_name) => RenameRefused(p)]_vars

\* a rename to the name of another stored machine was refused for the name
C11_Witness ==
    \E p \in Procs :
        /\ pc[p] = "done" /\ req[p].op = "rename"
        /\ err[p] = ErrUniqueName
        /\ req[p].name # req[p].new_name
        /\ {req[p].name, req[p].new_name} \subseteq NamesOf(machines)

\* C12: a delete, rename or heartbeat for a name that names no stored machine
\* fails with the not-found error (or the storage failure of its statement),
\* answered 404 for delete and heartbeat, and leaves the store and the files
\* unchanged; so a second delete of a name fails.
C12_AbsentNameNotFound ==
    [][\A p \in Procs :
          (/\ pc[p] = "idle" /\ pc'[p] # "idle"
           /\ req'[p].op \in {"delete", "heartbeat", "rename"}
           /\ req'[p].name # <<>>
           /\ req'[p].name \notin NamesOf(machines)) =>
              /\ pc'[p] = "done"
              /\ resp'[p].status >= 400
              /\ req'[p].op \in {"delete", "heartbeat"} => resp'[p].status = 404
              /\ (req'[p].op = "rename" => validName(req'[p].new_name)) =>
                    err'[p] \in {ErrNotFound, ErrStorage}
              /\ UNCHANGED <<storeVars, fileVars>>]_vars

\* the one machine registered was deleted, and a further delete of its name
\* was answered 404
C12_Witness ==
    \E p \in Procs :
        /\ pc[p] = "done" /\ req[p].op = "delete"
        /\ err[p] = ErrNotFound
        /\ resp[p].status = 404
        /\ machines = {}
        /\ nextId = 2

\* the names of a listing
ListedNames(l) == {l[i].name : i \in 1..Len(l)}

\* C13: the store step of a successful delete removes exactly the row of the
\* named machine: the name is then absent from get, every other row and the
\* id sequence are unchanged, and the port is free at once: the port scan
\* that follows returns a port no higher than it, and exactly it when the
\* pool was full.  The listing the same request then makes, no other request
\* intervening, does not hold the name.
C13_DeleteRemovesExactlyNamed ==
    [][\A p \in Procs :
          /\ (pc[p] = "ListMachines" /\ pc'[p] = "Generate" /\ req[p].op = "delete") =>
                req[p].name \notin ListedNames(list'[p])
          /\ (pc[p] = "idle" /\ pc'[p] = "RemoveKey") =>
              \E r \in machines :
                  /\ r.name = req'[p].name
                  /\ machines' = machines \ {r}
                  /\ nextId' = nextId
                  /\ GetMachine(machines', r.name) = {}
                  /\ r.port \notin PortsOf(machines')
                  /\ AllocatePort(machines') # 0
                  /\ AllocatePort(machines') <= r.port
                  /\ PoolFull(machines) => AllocatePort(machines') = r.port]_vars

\* the machine on PortMax was deleted from a full pool: PortMax is what the
\* next port scan returns
C13_Witness ==
    \E p \in Procs :
        /\ pc[p] = "RemoveKey"
        /\ req[p].name = FillerName(PortMax)
        /\ Cardinality(machines) = PortMax - PortMin
        /\ AllocatePort(machines) = PortMax

\* C14: the listing ListMachines returns holds exactly the rows of the table,
\* each once, in strictly ascending order of port; it is empty for an empty
\* table.
C14_ListExactlyAscending ==
    [][\A p \in Procs :
          (pc[p] = "ListMachines" /\ pc'[p] = "Generate") =>
              /\ Len(list'[p]) = Cardinality(machines)
              /\ {list'[p][i] : i \in 1..Len(list'[p])} = machines
              /\ \A i \in 1..(Len(list'[p]) - 1) : list'[p][i].port < list'[p][i + 1].port
              /\ machines = {} => list'[p] = <<>>]_vars

\* the two machines registered in an empty store were listed, the first
\* registered first
C14_Witness ==
    \E p \in Procs :
        /\ pc[p] = "Generate"
        /\ Len(list[p]) = 2
        /\ list[p][1].id = 1 /\ list[p][1].port = PortMin
        /\ list[p][2].id = 2 /\ list[p][2].port = PortMin + 1

\* C15: a heartbeat answered 200 sets the last_seen of the named machine to
\* a non-null timestamp and changes nothing else: its id, name, port, owner,
\* local_user and public_key, every other row, the id sequence and the files
\* are unchanged; and a machine leaves the store only in the store step of a
\* delete request for its name.
C15_HeartbeatOnlyStamps ==
    [][/\ \A p \in Procs :
            (/\ pc[p] = "idle" /\ pc'[p] = "done"
             /\ req'[p].op = "heartbeat" /\ resp'[p].status = 200) =>
                /\ \E r \in machines : \E r2 \in machines' :
                      /\ r.name = req'[p].name
                      /\ r2.last_seen # NULL
                      /\ r2 = [r EXCEPT !.last_seen = r2.last_seen]
                      /\ machines' \ {r2} = machines \ {r}
                /\ Cardinality(machines') = Cardinality(machines)
                /\ nextId' = nextId
                /\ UNCHANGED fileVars
       /\ \A r \in machines :
            (\A r2 \in machines' : r2.id # r.id) =>
                \E p \in Procs :
                    /\ pc[p] = "idle" /\ pc'[p] = "RemoveKey"
                    /\ req'[p].name = r.name]_vars

\* a heartbeat for one of two stored machines was answered 200 and that
\* machine's last_seen is set, the other's is not
C15_Witness ==
    \E p \in Procs :
        /\ pc[p] = "done" /\ req[p].op = "heartbeat" /\ resp[p].status = 200
        /\ Cardinality(machines) = 2
        /\ \E r \in machines : r.name = req[p].name /\ r.last_seen # NULL
        /\ \E r \in machines : r.name # req[p].name /\ r.last_seen = NULL

\* C16: in every step that changes the table, a row that stays keeps its id,
\* port, owner, local_user and public_key; ids are unique; a row that enters
\* takes the next id of the sequence, never one that was used before, and
\* holds one port of the pool.
C16_MachineFieldsFixed ==
    [][machines' # machines =>
          /\ \A r \in machines : \A r2 \in machines' :
                r2.id = r.id =>
                    /\ r2.port = r.port /\ r2.owner = r.owner
                    /\ r2.local_user = r.local_user
                    /\ r2.public_key = r.public_key
          /\ \A r1, r2 \in machines' : r1.id = r2.id => r1 = r2
          /\ \A r2 \in machines' :
                (\A r \in machines : r.id # r2.id) =>
                    /\ r2.id = nextId /\ nextId' = nextId + 1
                    /\ r2.port \in PortMin..PortMax
          /\ \A r \in machines : r.id < nextId]_vars

\* the machine registered first was given a heartbeat and then renamed, a
\* second machine was registered after it: it still has id 1 and PortMin
C16_Witness ==
    /\ Cardinality(machines) >= 2
    /\ \E r \in machines :
          /\ r.name = <<"b">> /\ r.last_seen # NULL
          /\ r.id = 1 /\ r.port = PortMin
          /\ r.owner = <<"o">> /\ r.local_user = <<"u">> /\ r.public_key = KeyPlain

\* the calls a handler makes after its INSERT or DELETE has succeeded
PostMutation ==
    {"WriteKey", "RemoveKey", "ListMachines", "Generate", "UpdateAuthorizedKeys",
     "OnChange", "Wait"}

\* C17: once the INSERT of a register request or the DELETE of a delete
\* request has succeeded, no later step of the handler changes the table,
\* whatever file operation or listing fails, and the handler ends with 201
\* (name and port of the stored machine) or 200: the machine registered is
\* then in the store, the machine deleted is not.
C17_MutationStandsDespiteFailures ==
    [][\A p \in Procs :
          (pc[p] \in PostMutation /\ pc'[p] # pc[p]) =>
              /\ UNCHANGED storeVars
              /\ pc'[p] \in PostMutation \cup {"done"}
              /\ pc'[p] = "done" =>
                    IF req[p].op = "register"
                    THEN /\ resp'[p] = CreatedResp(req[p].name, port[p])
                         /\ \E r \in machines' :
                               r.name = req[p].name /\ r.port = port[p]
                    ELSE /\ resp'[p] = OkResp
                         /\ GetMachine(machines', req[p].name) = {}]_vars

\* a registration was answered 201 although its key file and the routing
\* config could not be written
C17_Witness ==
    \E p \in Procs :
        /\ pc[p] = "done" /\ req[p].op = "register"
        /\ resp[p].status = 201
        /\ {"WriteKey", "Generate"} \subseteq logged[p]
        /\ req[p].name \in NamesOf(machines)
        /\ req[p].name \notin DOMAIN keyFiles

\* a register or delete request of handler p has been answered with success
MutationDone(p) ==
    /\ pc[p] = "done"
    /\ req[p].op \in {"register", "delete"}
    /\ resp[p].status \in {200, 201}

\* C18: when a successful create or delete request has completed, its listing
\* having succeeded and the credential file being writable, the credential
\* file is the one written in full from the machines then in the store, also
\* when the routing-config write of that request failed.
C18_CredentialFileFollowsMutation ==
    \A p \in Procs :
        (MutationDone(p) /\ logged[p] \cap {"ListMachines", "UpdateAuthorizedKeys"} = {}) =>
            \E rd \in Unreliable.reads :
                authKeys = AuthorizedKeys(rd, ListMachines(machines))

\* handler p writes authorized_keys in this step
WritesAuthorizedKeys(p) ==
    /\ pc[p] = "UpdateAuthorizedKeys" /\ pc'[p] = "OnChange"
    /\ logged'[p] = logged[p]

\* the text begins with the given text
StartsWith(s, prefix) ==
    /\ Len(s) >= Len(prefix)
    /\ SubSeq(s, 1, Len(prefix)) = prefix

\* C19: every credential file a regeneration writes begins with the server's
\* public key, whatever the machine list is.
C19_ServerKeyFirst ==
    [][\A p \in Procs :
          WritesAuthorizedKeys(p) =>
              StartsWith(authKeys', ServerPubKey \o <<"\n">>)]_vars

\* the lines of a text, the final newline of each left out
RECURSIVE LinesFrom(_, _, _)
LinesFrom(s, cur, acc) ==
    IF s = <<>>
    THEN IF cur = <<>> THEN acc ELSE Append(acc, cur)
    ELSE IF Head(s) = "\n"
         THEN LinesFrom(Tail(s), <<>>, Append(acc, cur))
         ELSE LinesFrom(Tail(s), Append(cur, Head(s)), acc)

Lines(s) == LinesFrom(s, <<>>, <<>>)

\* the lines of a credential file that are neither blank nor the server's key
MachineLines(text) ==
    SelectSeq(Lines(text), LAMBDA l : Fields(l) # <<>> /\ l # ServerPubKey)

\* C20: the credential file UpdateAuthorizedKeys writes has, the server key
\* aside, exactly one line per machine of the list, in list order: the
\* machine's restrictions (permitlisten on localhost:{its port}, no pty, no
\* agent forwarding, no X11 forwarding) followed by its public key; no line
\* begins with a key type, that is, grants a key without restrictions, and no
\* two lines grant the same port.
C20_OneRestrictedEntryPerMachine ==
    [][\A p \in Procs :
          WritesAuthorizedKeys(p) =>
              /\ Len(MachineLines(authKeys')) = Len(list[p])
              /\ \A i \in 1..Len(MachineLines(authKeys')) :
                    /\ Fields(MachineLines(authKeys')[i])[1] \notin validTypes
                    /\ i <= Len(list[p]) =>
                          Fields(MachineLines(authKeys')[i]) =
                              <<Restrictions(list[p][i].port)>>
                                  \o Fields(list[p][i].public_key)
              /\ \A i, j \in 1..Len(list[p]) :
                    list[p][i].port = list[p][j].port => i = j]_vars

\* C21: whenever no request is in flight and no operation has failed, the
\* key files are exactly the files of the stored machines' names and each
\* holds its machine's public key, under concurrent registrations and deletions
Quiescent == \A p \in Procs : pc[p] \in {"idle", "done"} /\ logged[p] = {}

C21_KeyFilePerMachine ==
    Quiescent =>
        /\ DOMAIN keyFiles = NamesOf(machines)
        /\ \A r \in machines : keyFiles[r.name] = KeyFileContent(r.public_key)

\* C22: within a create or delete request the propagation steps run in the
\* order re-list, write routing config, write credential file, reload hook;
\* the hook is invoked only when the routing config of the request has been
\* written; and, the listing having succeeded, the success response is sent
\* only after the config write and the credential file write were attempted.
C22_PropagationOrder ==
    [][\A p \in Procs :
          (req[p].op \in {"register", "delete"} /\ pc'[p] # pc[p]) =>
              /\ pc'[p] = "Generate" => pc[p] = "ListMachines"
              /\ pc'[p] = "UpdateAuthorizedKeys" => pc[p] = "Generate"
              /\ pc'[p] = "OnChange" => pc[p] = "UpdateAuthorizedKeys"
              /\ pc'[p] = "Wait" =>
                    /\ pc[p] = "OnChange"
                    /\ "Generate" \notin logged[p]
                    /\ configFile = Generate(list[p])
              /\ ( /\ pc'[p] = "done"
                   /\ resp'[p].status \in {200, 201}
                   /\ "ListMachines" \notin logged'[p] ) =>
                    pc[p] = "Wait"]_vars

\* C23: the response does not wait for the daemon's restart: a handler that
\* has invoked the reload hook can go on to its response in every state,
\* whether or not sshpiperd has terminated yet.
C23_ResponseNotDelayedByRestart ==
    \A p \in Procs :
        pc[p] = "Wait" => ENABLED Serve(p, {}, {}, {}, {}, Reliable, Trusted)

\* handler p writes sshpiper.yaml in this step
WritesConfig(p) == pc[p] = "Generate" /\ pc'[p] = "UpdateAuthorizedKeys"

\* C24: the document Generate writes has the version header and exactly one
\* rule per machine of the list it was given, in list order; rule i accepts
\* logins as machine i's name authorized by {KeysDir}/{name}.pub and forwards
\* them to localhost:{port} as {local_user} with the server key, host-key
\* checking off. For the empty list the pipes section is empty.
C24_OneRulePerMachine ==
    [][\A p \in Procs :
          WritesConfig(p) =>
              /\ configFile'.version = "1.0"
              /\ Len(configFile'.pipes) = Len(list[p])
              /\ list[p] = <<>> => configFile'.pipes = <<>>
              /\ \A i \in 1..Len(list[p]) :
                    LET m == list[p][i]
                        rule == configFile'.pipes[i]
                    IN  /\ rule.from_username = m.name
                        /\ rule.authorized_keys = <<KeysDir, "/", m.name, ".pub">>
                        /\ rule.to_host = <<"localhost", m.port>>
                        /\ rule.to_username = m.local_user
                        /\ rule.private_key = ServerKey
                        /\ rule.ignore_hostkey = TRUE]_vars

\* a document of two rules has been written from a list of two machines
C24_Witness ==
    \E p \in Procs :
        /\ pc[p] = "UpdateAuthorizedKeys"
        /\ Len(list[p]) = 2
        /\ Len(configFile.pipes) = 2
        /\ configFile.pipes[1].from_username = list[p][1].name
        /\ configFile.pipes[2].to_host = <<"localhost", list[p][2].port>>
        /\ list[p][1].local_user # list[p][1].owner

\* C25: the document a call of Generate writes is determined by the machine
\* list it is given alone: whatever sshpiper.yaml held before (an earlier
\* document, a truncated one), the file is afterwards the document of that
\* list, so two calls with the same list leave identical files.
C25_GenerateDeterministic ==
    [][\A p \in Procs : WritesConfig(p) => configFile' = Generate(list[p])]_vars

\* the document of the empty list, which the server also wrote when it
\* started, has been written again over the document of one machine
C25_Witness ==
    \E p \in Procs :
        /\ pc[p] = "UpdateAuthorizedKeys"
        /\ req[p].op = "delete"
        /\ list[p] = <<>>
        /\ configFile = [version |-> "1.0", pipes |-> <<>>]
        /\ Len(piperConfig.pipes) = 1

\* C26: a registration answered 201 echoes the requested name and reports the
\* port of the row its INSERT stored: the INSERT stores the requested name
\* with the port the handler holds, the handler's name and port stay what
\* they are until it answers, and the answer carries both, whatever the
\* other handlers do in between.
C26_ResponseReportsStoredPort ==
    [][\A p \in Procs :
          req[p].op = "register" =>
              /\ (pc[p] = "Insert" /\ pc'[p] = "WriteKey") =>
                    \E r \in machines' \ machines :
                        r.name = req[p].name /\ r.port = port[p]
              /\ pc[p] \in PostMutation => port'[p] = port[p] /\ req'[p] = req[p]
              /\ (pc[p] # "done" /\ pc'[p] = "done" /\ resp'[p].status = 201) =>
                    /\ pc[p] \in PostMutation
                    /\ resp'[p].name = req[p].name
                    /\ resp'[p].port = port[p]]_vars

\* two registrations served concurrently have both been answered 201, each
\* with the port of its own machine in the store
C26_Witness ==
    \E p, q \in Procs :
        /\ RegisterDone(p) /\ RegisterDone(q)
        /\ resp[p].status = 201 /\ resp[q].status = 201
        /\ resp[p].port # resp[q].port
        /\ \E r \in machines : r.name = resp[p].name /\ r.port = resp[p].port
        /\ \E r \in machines : r.name = resp[q].name /\ r.port = resp[q].port

\* handler p is handed a request to a route of the authenticated group whose
\* X-API-Key header is missing or is not the secret
BadKeyRequest(p) ==
    /\ pc[p] = "idle" /\ pc'[p] # "idle"
    /\ req'[p].op \in AuthenticatedOps
    /\ apiKey'[p] # Secret

\* the request of handler p has changed neither the store nor a file nor
\* the daemon, and is answered at once
NoEffect(p) ==
    /\ pc'[p] = "done"
    /\ UNCHANGED <<storeVars, fileVars, daemon>>

\* C27 as stated: every request to an authenticated route without the
\* secret is answered 401 and changes nothing; a status request is never
\* answered 401, whatever key it carries.
C27_BadKeyAnswered401 ==
    [][\A p \in Procs :
          /\ BadKeyRequest(p) => resp'[p].status = 401 /\ NoEffect(p)
          /\ (pc[p] = "idle" /\ req'[p].op = "status") => resp'[p].status # 401]_vars

\* C27, amended: every request to an authenticated route without the secret
\* is answered 401, or 429 when the rate limiter in front of apiKeyAuth
\* refuses it, and changes nothing; a status request is never answered 401.
C27_BadKeyRefused ==
    [][\A p \in Procs :
          /\ BadKeyRequest(p) => resp'[p].status \in {401, 429} /\ NoEffect(p)
          /\ (pc[p] = "idle" /\ req'[p].op = "status") => resp'[p].status # 401]_vars

\* a delete sent with a wrong key of the secret's length has been answered
\* 401 while the store holds machines
C27_Witness ==
    \E p \in Procs :
        /\ pc[p] = "done"
        /\ req[p].op = "delete"
        /\ apiKey[p] = <<"k", "e", "x">>
        /\ resp[p].status = 401
        /\ machines # {}

\* C28: Run returns only when the context has been cancelled, and then with
\* the context's error; and it never gives up: after an attempt has ended,
\* whatever their number so far, Run starts ssh again unless the context
\* is cancelled.
C28_RunReturnsOnlyOnCancel ==
    /\ [](tpc = "returned" => ctx = "cancelled" /\ ret = Canceled)
    /\ [](tpc # "returned" => ret = "")
    /\ (tpc = "ranOnce" /\ attempt < MaxAttempts) ~> (tpc = "runOnce" \/ ctx = "cancelled")

\* ssh is running again after MaxAttempts attempts have ended, the context live
C28_Witness == tpc = "runOnce" /\ attempt = MaxAttempts /\ ctx = "live"

\* C29: the delay before the k-th reconnection is 2^k seconds for k up to 5
\* and 60 seconds from the sixth on (2, 4, 8, 16, 32, 60, 60, ...); it never
\* exceeds 60 and never decreases from one wait of a Run to the next.
C29_DelayDoublesToCap ==
    /\ [](tpc = "wait" =>
            /\ attempt >= 1
            /\ delay = IF attempt <= 5 THEN 2 ^ attempt ELSE 60
            /\ attempt = 1 => delay = 2
            /\ attempt = 6 => delay = 60)
    /\ [](delay <= 60)
    /\ [][delay' >= delay /\ attempt' >= attempt]_vars

\* Run waits before its seventh reconnection, the delay capped for the second time
C29_Witness == tpc = "wait" /\ attempt = 7 /\ delay = 60 /\ timer = "pending"

C31_AbsentIsNormalResult ==
    [][\A p \in Procs :
          (pc[p] = "GetMachine" /\ pc'[p] # "GetMachine") =>
              LET name == req[p].name
                  got == GetMachine(machines, name)
              IN  /\ UNCHANGED <<storeVars, fileVars>>
                  /\ name \notin NamesOf(machines) =>
                        /\ got = {}
                        /\ err'[p] \in {ErrNone, ErrStorage}
                        /\ err'[p] = ErrNone =>
                              pc'[p] = "AllocatePort" /\ resp'[p] = NoResp
                  /\ name \in NamesOf(machines) =>
                        /\ \E r \in machines : got = {r} /\ r.name = name
                        /\ pc'[p] = "done"]_vars

\* a registration whose name is absent from a store that holds other
\* machines has passed the lookup without an error
C31_Witness ==
    \E p \in Procs :
        /\ pc[p] = "AllocatePort"
        /\ err[p] = ErrNone
        /\ resp[p] = NoResp
        /\ machines # {}
        /\ req[p].name \notin NamesOf(machines)

\* C32: of concurrent registrations of one valid name at most one record
\* with that name exists, and a registration that lost to another one of
\* the same name (its INSERT refused by the UNIQUE constraint on name, or
\* its lookup finding the row) is answered 409 'machine already registered'.
C32_SameNameRaceIsConflict ==
    /\ \A n \in NamesOf(machines) : Cardinality(GetMachine(machines, n)) = 1
    /\ \A p \in Procs :
          (RegisterDone(p) /\ err[p] = ErrUniqueName) =>
              resp[p] = ErrorResp("machine already registered", 409)

\* C33: when two concurrent register or delete requests have both completed
\* with success and none of their steps (listing, file writes) has failed, the
\* routing config document and the credential file are those generated from
\* the store's current machine list: the older listing of one request has not
\* overwritten the output of the newer listing of the other.
C33_DerivedFilesMatchStoreAtRest ==
    (\A p \in Procs : MutationDone(p) /\ logged[p] = {}) =>
        /\ configFile = Generate(ListMachines(machines))
        /\ authKeys = AuthorizedKeys(ServerPubKey, ListMachines(machines))

\* a rename request of handler p is answered with success in this step
RenameSucceeds(p) ==
    pc[p] = "idle" /\ req'[p].op = "rename" /\ resp'[p].status = 200

\* C34 (as stated): the routing configuration derived from the store,
\* Generate applied to ListMachines, is the same before and after a
\* successful rename.
C34_RenameKeepsDerivedConfig ==
    [][\A p \in Procs :
          RenameSucceeds(p) =>
              Generate(ListMachines(machines')) = Generate(ListMachines(machines))]_vars

\* C34 (amended): a successful rename changes the routing configuration
\* derived from the store in the rule of the renamed machine and only there:
\* that rule accepts the new name and reads the key file of the new name, its
\* target port, target user and position are kept, every other rule is kept;
\* the derived configuration is the same only if the new name is the old one.
C34_RenameRewritesOneRule ==
    [][\A p \in Procs :
          RenameSucceeds(p) =>
              LET old    == req'[p].name
                  new    == req'[p].new_name
                  before == Generate(ListMachines(machines)).pipes
                  after  == Generate(ListMachines(machines')).pipes
              IN  /\ Len(after) = Len(before)
                  /\ \E i \in 1..Len(before) : before[i].from_username = old
                  /\ \A i \in 1..Len(before) :
                        after[i] =
                            IF before[i].from_username = old
                            THEN [before[i] EXCEPT
                                     !.from_username = new,
                                     !.authorized_keys = <<KeysDir, "/", new, ".pub">>]
                            ELSE before[i]
                  /\ (after = before) <=> (new = old)]_vars

\* machine "a" was renamed to "b" next to another stored machine, and the
\* configuration derived from the store now has a rule for "b" and none for "a"
C34_Witness ==
    \E p \in Procs :
        /\ pc[p] = "done" /\ req[p].op = "rename" /\ resp[p].status = 200
        /\ req[p].name # req[p].new_name
        /\ Cardinality(machines) >= 2
        /\ \E r \in machines :
              /\ r.name = req[p].new_name
              /\ Pipe(r).from_username = req[p].new_name
              /\ Pipe(r).authorized_keys = <<KeysDir, "/", req[p].new_name, ".pub">>
        /\ req[p].name \notin NamesOf(machines)

\* handler p takes a request of kind op in this step and changes the table
Mutates(p, op) ==
    /\ req'[p].op = op
    /\ pc'[p] # pc[p]
    /\ machines' # machines

\* C35 (as stated): every successful mutation, a successful heartbeat
\* included, triggers change propagation: the handler goes on to re-list the
\* machines and regenerate the derived files.
C35_EveryMutationPropagates ==
    [][\A p \in Procs :
          (\E op \in {"register", "delete", "heartbeat"} : Mutates(p, op)) =>
              pc'[p] \in PostMutation]_vars

\* C35 (amended): a successful registration or deletion triggers change
\* propagation (after the key file step the handler re-lists the machines); a
\* heartbeat never does: it ends in its first step, with 200 when it has set
\* last_seen, and leaves key files, routing config, credential file and the
\* routing daemon as they were.
C35_HeartbeatDoesNotPropagate ==
    [][\A p \in Procs :
          /\ (Mutates(p, "register") \/ Mutates(p, "delete")) =>
                pc'[p] \in {"WriteKey", "RemoveKey"}
          /\ (pc[p] \in {"WriteKey", "RemoveKey"} /\ pc'[p] # pc[p]) =>
                pc'[p] = "ListMachines"
          /\ (pc'[p] # pc[p] /\ req'[p].op = "heartbeat") =>
                /\ pc[p] = "idle" /\ pc'[p] = "done"
                /\ UNCHANGED <<fileVars, daemon, list>>
                /\ machines' # machines => resp'[p] = OkResp]_vars

\* a heartbeat has been answered 200 and has stamped its machine, while the
\* other handler is in the middle of a propagation
C35_Witness ==
    \E p, q \in Procs :
        /\ pc[p] = "done" /\ req[p].op = "heartbeat" /\ resp[p] = OkResp
        /\ \E r \in machines : r.name = req[p].name /\ r.last_seen = CURRENT_TIMESTAMP
        /\ pc[q] \in {"ListMachines", "Generate"}

\* C36: in every reachable state every machine name of the store is one to
\* 64 characters long, begins with a letter or digit and continues with
\* letters, digits, '.', '_' or '-', whatever registrations and renames were
\* asked for: a rename to a name outside this format changes nothing.
C36_StoredNamesWellFormed ==
    /\ \A r \in machines :
          /\ Len(r.name) \in 1..(1 + MaxNameTail)
          /\ r.name[1] \in AlNum
          /\ \A i \in 2..Len(r.name) : r.name[i] \in TailChars
    /\ \A p \in Procs :
          (pc[p] = "done" /\ req[p].op = "rename" /\ resp[p].status = 200) =>
              req[p].new_name \in NamesOf(machines)

\* a rename of a stored machine to the name "-a" has been refused with 400
\* and the machine is still stored under its old name
C36_Witness ==
    \E p \in Procs :
        /\ pc[p] = "done" /\ req[p].op = "rename"
        /\ req[p].new_name = <<"-", "a">>
        /\ resp[p].status = 400
        /\ req[p].name \in NamesOf(machines)

\* C37: the step that ends the reload hook, whether or not the routing daemon
\* could be started again, leaves the store as the mutation committed it,
\* ends the handler's request with its success response (201 or 200), and
\* leaves every other request in service where it was.
C37_ReloadFailureTolerated ==
    [][\A p \in Procs :
          (pc[p] = "Wait" /\ pc'[p] # "Wait") =>
              /\ UNCHANGED storeVars
              /\ pc'[p] = "done"
              /\ resp'[p] = SuccessResp(p)
              /\ \A q \in Procs \ {p} : pc'[q] = pc[q]]_vars

\* C38: when main has run to the point where it serves and none of its
\* operations has failed, every machine of the store has its key file, with
\* its stored key, and the routing config and the credential file are those
\* generated from the store's machine list, whatever the files were before.
C38_StartupRestoresDerivedFiles ==
    [][(main(Reliable) /\ \A p \in Procs : pc'[p] = "idle") =>
          /\ NamesOf(machines') \subseteq DOMAIN keyFiles'
          /\ \A r \in machines' : keyFiles'[r.name] = KeyFileContent(r.public_key)
          /\ configFile' = Generate(ListMachines(machines'))
          /\ authKeys' = AuthorizedKeys(ServerPubKey, ListMachines(machines'))
          /\ piperConfig' = configFile']_vars

\* the only machine ever inserted was registered as "a" and renamed to "b",
\* which left it without a key file; a start has since written b.pub and a
\* config with the rule of "b", next to the stale a.pub
C38_Witness ==
    /\ nextId = 2
    /\ NamesOf(machines) = {<<"b">>}
    /\ {<<"a">>, <<"b">>} \subseteq DOMAIN keyFiles
    /\ configFile = Generate(ListMachines(machines))
    /\ authKeys = AuthorizedKeys(ServerPubKey, ListMachines(machines))
    /\ \A p \in Procs : pc[p] = "idle"

\* C39: in every state of the client the assigned_port of its config is
\* nonzero only while the machine it registered is registered (since its last
\* successful registration no deletion of that machine has succeeded), and a
\* tunnel or heartbeat loop that connect started was given a nonzero port.
C39_AssignedPortOnlyWhileRegistered ==
    /\ cfg.assigned_port # 0 => own # NoName
    /\ (tpc # "off" \/ hpc # "off") => remote # 0
====
